---- MODULE Spec2Model ----
(***************************************************************************)
(* Sensor timing and streaming control engine of the imx294 V4L2 driver    *)
(* (src/imx294.c): the runtime-PM reference count, the streaming state     *)
(* machine (imx294_set_stream, imx294_suspend, imx294_resume), register    *)
(* list programming (imx294_write_regs) and the control handler            *)
(* (imx294_set_ctrl), one step per register-transport call.                *)
(***************************************************************************)
EXTENDS Integers, Sequences, FiniteSets, TLC

\* Mode-independent initialisation block (imx294.c lines 140-394): 224 records <<address, value>>, in list order;
\* addresses and values are the source's hexadecimal literals in decimal.
mode_common_regs ==
  <<
     <<12339,48>>, <<12348,1>>, <<12776,32>>, <<12777,1>>, <<12578,2>>, <<12585,144>>, <<12586,2>>, <<12575,0>>,
     <<12579,0>>, <<12580,0>>, <<12581,1>>, <<12583,2>>, <<12589,2>>, <<12288,18>>, <<12555,0>>, <<12359,1>>,
     <<12366,11>>, <<12367,36>>, <<12386,37>>, <<12388,120>>, <<12389,51>>, <<12391,113>>, <<12424,117>>, <<12426,9>>,
     <<12427,1>>, <<12428,97>>, <<12614,0>>, <<12852,50>>, <<12853,0>>, <<12872,188>>, <<12873,0>>, <<12880,188>>,
     <<12881,0>>, <<12888,188>>, <<12889,0>>, <<12896,188>>, <<12897,0>>, <<12916,19>>, <<12917,0>>, <<12918,31>>,
     <<12919,0>>, <<12920,48>>, <<12921,0>>, <<12924,19>>, <<12925,0>>, <<12926,31>>, <<12927,0>>, <<12928,48>>,
     <<12929,0>>, <<12932,19>>, <<12933,0>>, <<12934,31>>, <<12935,0>>, <<12936,48>>, <<12937,0>>, <<12940,19>>,
     <<12941,0>>, <<12942,31>>, <<12943,0>>, <<12944,48>>, <<12945,0>>, <<12974,0>>, <<12975,0>>, <<13002,90>>,
     <<13003,0>>, <<13103,0>>, <<13132,1>>, <<13146,121>>, <<13147,0>>, <<13150,86>>, <<13151,0>>, <<13152,106>>,
     <<13153,0>>, <<13162,86>>, <<13163,0>>, <<13270,121>>, <<13271,0>>, <<13324,110>>, <<13325,0>>, <<13384,126>>,
     <<13385,0>>, <<13454,111>>, <<13455,0>>, <<13458,17>>, <<13508,90>>, <<13509,0>>, <<13574,86>>, <<13575,0>>,
     <<13580,86>>, <<13581,0>>, <<13582,88>>, <<13583,0>>, <<13641,4>>, <<13661,3>>, <<13662,3>>, <<13684,86>>,
     <<13685,0>>, <<13703,1>>, <<13776,94>>, <<13777,0>>, <<13780,99>>, <<13781,0>>, <<13930,26>>, <<13931,22>>,
     <<13932,16>>, <<13933,9>>, <<13934,0>>, <<13935,0>>, <<13936,0>>, <<13937,0>>, <<13942,131>>, <<13943,3>>,
     <<13944,0>>, <<13945,4>>, <<13946,44>>, <<13947,5>>, <<13948,0>>, <<13949,6>>, <<13950,0>>, <<13951,7>>,
     <<13952,75>>, <<13953,7>>, <<13968,39>>, <<13969,0>>, <<13970,101>>, <<13971,0>>, <<13972,79>>, <<13973,0>>,
     <<13974,161>>, <<13975,0>>, <<14379,104>>, <<15360,1>>, <<15361,1>>, <<13958,0>>, <<13959,0>>, <<14014,1>>,
     <<14015,0>>, <<14016,1>>, <<14017,0>>, <<14018,1>>, <<14019,0>>, <<14020,1>>, <<14021,1>>, <<14022,1>>,
     <<12596,175>>, <<12597,0>>, <<12598,199>>, <<12599,0>>, <<12600,127>>, <<12601,0>>, <<12602,111>>, <<12603,0>>,
     <<12604,111>>, <<12605,0>>, <<12606,207>>, <<12607,1>>, <<12608,119>>, <<12609,0>>, <<12610,95>>, <<12611,0>>,
     <<12292,26>>, <<12293,6>>, <<12294,0>>, <<12295,160>>, <<12313,0>>, <<12336,119>>, <<12340,0>>, <<12341,1>>,
     <<12342,48>>, <<12343,0>>, <<12344,96>>, <<12345,16>>, <<12392,26>>, <<12393,0>>, <<12416,0>>, <<12417,1>>,
     <<12456,2>>, <<12514,0>>, <<12591,8>>, <<12592,136>>, <<12593,8>>, <<12594,128>>, <<12595,8>>, <<13695,12>>,
     <<13696,10>>, <<13697,8>>, <<13699,114>>, <<13824,144>>, <<13825,0>>, <<14406,0>>, <<14407,0>>, <<14410,0>>,
     <<14411,0>>, <<12302,0>>, <<12303,0>>, <<12332,16>>, <<12333,0>>, <<12457,136>>, <<12458,19>>, <<12459,0>>,
     <<12460,176>>, <<12461,4>>, <<12420,176>>, <<12421,4>>, <<12422,176>>, <<12423,4>>, <<13100,0>>, <<13101,0>>,
     <<13130,0>>, <<13131,0>>, <<13750,0>>, <<13751,0>>, <<13752,0>>, <<13753,0>>, <<14012,0>>, <<14013,0>>,
     <<65534,10>>, <<12288,2>>, <<13797,146>>, <<13797,154>>, <<12288,0>>, <<65534,10>>, <<12339,32>>, <<12311,168>>
  >>

\* 3704 x 2778 readout mode 0 - 12bit (imx294.c lines 398-432): 33 records <<address, value>>, in list order;
\* addresses and values are the source's hexadecimal literals in decimal.
mode_00_regs ==
  <<
     <<12292,0>>, <<12293,6>>, <<12294,2>>, <<12295,160>>, <<12313,0>>, <<12336,119>>, <<12340,0>>, <<12341,1>>,
     <<12342,48>>, <<12343,0>>, <<12344,0>>, <<12345,15>>, <<12392,26>>, <<12393,0>>, <<12416,0>>, <<12417,1>>,
     <<12456,2>>, <<12514,0>>, <<12591,16>>, <<12592,24>>, <<12593,11>>, <<12594,8>>, <<12595,11>>, <<13695,12>>,
     <<13696,10>>, <<13697,8>>, <<13699,114>>, <<13824,144>>, <<13825,0>>, <<14406,0>>, <<14407,0>>, <<14410,0>>,
     <<14411,0>>
  >>

\* 4096 x 2160 readout mode 1 (imx294.c lines 436-470): 33 records <<address, value>>, in list order;
\* addresses and values are the source's hexadecimal literals in decimal.
mode_01_regs ==
  <<
     <<12292,26>>, <<12293,6>>, <<12294,0>>, <<12295,160>>, <<12313,0>>, <<12336,119>>, <<12340,0>>, <<12341,1>>,
     <<12342,48>>, <<12343,0>>, <<12344,96>>, <<12345,16>>, <<12392,26>>, <<12393,0>>, <<12416,0>>, <<12417,1>>,
     <<12456,2>>, <<12514,0>>, <<12591,8>>, <<12592,136>>, <<12593,8>>, <<12594,128>>, <<12595,8>>, <<13695,12>>,
     <<13696,10>>, <<13697,8>>, <<13699,114>>, <<13824,144>>, <<13825,0>>, <<14406,0>>, <<14407,0>>, <<14410,0>>,
     <<14411,0>>
  >>

\* 4096 x 2160 low noise readout mode 1A (imx294.c lines 473-507): 33 records <<address, value>>, in list order;
\* addresses and values are the source's hexadecimal literals in decimal.
mode_01A_regs ==
  <<
     <<12292,1>>, <<12293,6>>, <<12294,0>>, <<12295,160>>, <<12313,0>>, <<12336,119>>, <<12340,0>>, <<12341,1>>,
     <<12342,48>>, <<12343,0>>, <<12344,128>>, <<12345,16>>, <<12392,26>>, <<12393,0>>, <<12416,1>>, <<12417,1>>,
     <<12456,2>>, <<12514,0>>, <<12591,8>>, <<12592,136>>, <<12593,8>>, <<12594,128>>, <<12595,8>>, <<13695,12>>,
     <<13696,10>>, <<13697,8>>, <<13699,114>>, <<13824,125>>, <<13825,0>>, <<14406,0>>, <<14407,0>>, <<14410,0>>,
     <<14411,0>>
  >>

\* 3840 x 2160 low noise readout mode 1B (imx294.c lines 510-544): 33 records <<address, value>>, in list order;
\* addresses and values are the source's hexadecimal literals in decimal.
mode_01B_regs ==
  <<
     <<12292,2>>, <<12293,6>>, <<12294,1>>, <<12295,160>>, <<12313,0>>, <<12336,119>>, <<12340,0>>, <<12341,1>>,
     <<12342,48>>, <<12343,0>>, <<12344,80>>, <<12345,15>>, <<12392,26>>, <<12393,0>>, <<12416,0>>, <<12417,1>>,
     <<12456,2>>, <<12514,0>>, <<12591,8>>, <<12592,136>>, <<12593,8>>, <<12594,128>>, <<12595,8>>, <<13695,12>>,
     <<13696,10>>, <<13697,8>>, <<13699,114>>, <<13824,144>>, <<13825,0>>, <<14406,0>>, <<14407,0>>, <<14410,0>>,
     <<14411,0>>
  >>

\* ---------------------------------------------------------------- registers
IMX294_REG_MODE_SELECT == 12288
IMX294_MODE_STANDBY == 1
IMX294_MODE_STREAMING == 0
IMX294_REG_VMAX == 12457
IMX294_VMAX_MAX == 1048575
IMX294_REG_HMAX == 12460
IMX294_HMAX_MAX == 65535
IMX294_REG_HCOUNT1 == 12420
IMX294_REG_HCOUNT2 == 12422
IMX294_REG_PSSLVS1 == 13100
IMX294_REG_PSSLVS2 == 13130
IMX294_REG_PSSLVS3 == 13750
IMX294_REG_PSSLVS4 == 13752
IMX294_REG_PSSLVS0 == 14012
IMX294_REG_SHR == 12332
IMX294_REG_ANALOG_GAIN == 12298
IMX294_EXPOSURE_MIN == 52
IMX294_EXPOSURE_MAX == 49865
IMX294_EXPOSURE_DEFAULT == 1000
IMX294_ANA_GAIN_MIN == 0
IMX294_ANA_GAIN_MAX == 1957
IMX294_ANA_GAIN_DEFAULT == 0
\* the reserved address of a delay directive in a register list
REG_DELAY == 65534
\* the fixed timing reference of the HBLANK / pixel-rate arithmetic
BASE_CLOCK == 72000000
\* errno values returned by the driver
EIO == 5
EINVAL == 22
\* stands for the error imx294_power_on passes up from the regulator or clock
EPOWER == 19

U16 == 65536
U24 == 16777216

\* ---------------------------------------------------------------- mode catalog
\* supported_modes_12bit, in table order.  reg_list names the register list.
supported_modes_12bit ==
  << [width |-> 4144, height |-> 2184, min_HMAX |-> 1122, min_VMAX |-> 1111,
      default_HMAX |-> 1200, default_VMAX |-> 2500, VMAX_scale |-> 2, min_SHR |-> 5,
      integration_offset |-> 256, reg_list |-> mode_01_regs],
     [width |-> 4176, height |-> 2184, min_HMAX |-> 1192, min_VMAX |-> 1111,
      default_HMAX |-> 1200, default_VMAX |-> 2500, VMAX_scale |-> 2, min_SHR |-> 5,
      integration_offset |-> 361, reg_list |-> mode_01A_regs],
     [width |-> 3872, height |-> 2180, min_HMAX |-> 1055, min_VMAX |-> 1111,
      default_HMAX |-> 1200, default_VMAX |-> 2500, VMAX_scale |-> 2, min_SHR |-> 5,
      integration_offset |-> 256, reg_list |-> mode_01B_regs],
     [width |-> 3792, height |-> 2840, min_HMAX |-> 1024, min_VMAX |-> 1444,
      default_HMAX |-> 1875, default_VMAX |-> 1600, VMAX_scale |-> 2, min_SHR |-> 5,
      integration_offset |-> 551, reg_list |-> mode_00_regs] >>

NumModes == Len(supported_modes_12bit)

\* ---------------------------------------------------------------- arithmetic
\* floor(a*b / c) and the remainder, as the u64 multiply followed by do_div
\* computes them; evaluated by binary long multiplication so that no
\* intermediate value leaves the model checker's integer range.
RECURSIVE MulDivQR(_, _, _)
MulDivQR(a, b, c) ==
  IF a = 0 THEN <<0, 0>>
  ELSE LET h == MulDivQR(a \div 2, b, c)
           t == 2 * h[2] + (a % 2) * b
       IN  <<2 * h[1] + (t \div c), t % c>>

MulDiv(a, b, c) == MulDivQR(a, b, c)[1]

Min(a, b) == IF a < b THEN a ELSE b
Max(a, b) == IF a > b THEN a ELSE b
Clamp(x, lo, hi) == Min(Max(x, lo), hi)

\* variant of calculate_v4l2_cid_exposure: the numerator without the do_div
calculate_v4l2_cid_exposure_undivided(hmax, vmax, shr, svr, offset) ==
  (vmax * (svr + 1) - shr) * hmax + offset

\* calculate_v4l2_cid_exposure: ((vmax*(svr+1) - shr)*hmax + offset) / hmax.
\* For vmax*(svr+1) >= shr the u64 quotient is (vmax*(svr+1) - shr) + offset/hmax,
\* which is how it is evaluated here (hmax > 0).
calculate_v4l2_cid_exposure(hmax, vmax, shr, svr, offset) ==
  (vmax * (svr + 1) - shr) + (offset \div hmax)

\* calculate_min_max_v4l2_cid_exposure: <<min_exposure, max_exposure>>
calculate_min_max_v4l2_cid_exposure(hmax, vmax, min_shr, svr, offset) ==
  LET max_shr == Min((svr + 1) * vmax - 4, 65535)
  IN  << calculate_v4l2_cid_exposure(hmax, vmax, max_shr, svr, offset),
         calculate_v4l2_cid_exposure(hmax, vmax, min_shr, svr, offset) >>

\* calculate_shr: vmax*(svr+1) - (exposure*hmax - offset)/hmax.  For
\* exposure*hmax >= offset the quotient is exposure - 1 - (offset-1)/hmax when
\* offset > 0 and exposure when offset = 0.
calculate_shr(exposure, hmax, vmax, svr, offset) ==
  LET q == IF offset = 0 THEN exposure
           ELSE exposure - 1 - ((offset - 1) \div hmax)
  IN  vmax * (svr + 1) - q

\* ---------------------------------------------------------------- 64-bit arithmetic
\* The exposure calculations are done in u64 and uint32_t.  A u64 is held as
\* its eight bytes, least significant first, so that every intermediate value
\* stays inside the model checker's integer range and the wrap-around of the
\* C types is kept.
Bytes == 1..8

\* byte i of the non-negative integer n
Limb(n, i) == (n \div (256 ^ (i - 1))) % 256

\* the eight bytes x(1) .. x(8) as a u64
Word(x(_)) == <<x(1), x(2), x(3), x(4), x(5), x(6), x(7), x(8)>>

\* the u64 hi * 2^32 + lo, for hi and lo below 2^31
W64(hi, lo) ==
  LET x(i) == IF i <= 4 THEN Limb(lo, i) ELSE Limb(hi, i - 4)
  IN  Word(x)

\* the u64 of a non-negative integer
W(n) == W64(0, n)

\* a + b modulo 2^64
WAdd(a, b) ==
  LET c[i \in 0..8] == IF i = 0 THEN 0 ELSE (a[i] + b[i] + c[i - 1]) \div 256
      x(i) == (a[i] + b[i] + c[i - 1]) % 256
  IN  Word(x)

\* a - b modulo 2^64 (unsigned wrap-around)
WSub(a, b) ==
  LET n(i) == 255 - b[i]
  IN  WAdd(WAdd(a, Word(n)), W(1))

\* a * b modulo 2^64
WMul(a, b) ==
  LET col(k) == LET s[i \in 0..k] == IF i = 0 THEN 0 ELSE s[i - 1] + a[i] * b[k + 1 - i]
                IN  s[k]
      c[k \in 0..8] == IF k = 0 THEN 0 ELSE (col(k) + c[k - 1]) \div 256
      x(k) == (col(k) + c[k - 1]) % 256
  IN  Word(x)

\* do_div(a, d): the quotient of the u64 a by the 32-bit divisor d (here
\* below 2^23, as every HMAX is)
WDiv(a, d) ==
  LET r[i \in 1..9] == IF i = 9 THEN 0 ELSE (r[i + 1] * 256 + a[i]) % d
      x(i) == (r[i + 1] * 256 + a[i]) \div d
  IN  Word(x)

\* a < b
WLess(a, b) == \E i \in Bytes : a[i] < b[i] /\ \A j \in (i + 1)..8 : a[j] = b[j]

WMin(a, b) == IF WLess(b, a) THEN b ELSE a

\* the cast (uint32_t)a
WTrunc32(a) ==
  LET x(i) == IF i <= 4 THEN a[i] ELSE 0
  IN  Word(x)

\* a is below 2^31, and then its value as an integer
WFits(a) == a[4] < 128 /\ \A i \in 5..8 : a[i] = 0
WInt(a) == a[1] + 256 * a[2] + 65536 * a[3] + 16777216 * a[4]

\* calculate_v4l2_cid_exposure on the C types: numerator in u64, do_div, and
\* clamp_t(uint32_t, numerator, 0, 0xFFFFFFFF), which casts numerator to
\* uint32_t before it compares
calculate_v4l2_cid_exposure_u64(hmax, vmax, shr, svr, offset) ==
  LET numerator == WAdd(WMul(WSub(WMul(vmax, W(svr + 1)), shr), W(hmax)), W(offset))
  IN  WTrunc32(WDiv(numerator, hmax))

\* variant of calculate_min_max_v4l2_cid_exposure_u64: max_shr not limited to 0xFFFF
calculate_min_max_v4l2_cid_exposure_uncapped(hmax, vmax, min_shr, svr, offset) ==
  LET max_shr == WSub(WMul(W(svr + 1), vmax), W(4))
  IN  << calculate_v4l2_cid_exposure_u64(hmax, vmax, max_shr, svr, offset),
         calculate_v4l2_cid_exposure_u64(hmax, vmax, min_shr, svr, offset) >>

\* calculate_min_max_v4l2_cid_exposure on the C types: <<min_exposure, max_exposure>>
calculate_min_max_v4l2_cid_exposure_u64(hmax, vmax, min_shr, svr, offset) ==
  LET max_shr == WMin(WSub(WMul(W(svr + 1), vmax), W(4)), W(65535))
  IN  << calculate_v4l2_cid_exposure_u64(hmax, vmax, max_shr, svr, offset),
         calculate_v4l2_cid_exposure_u64(hmax, vmax, min_shr, svr, offset) >>

\* calculate_shr on the C types: exposure is a uint32_t, temp a u64 that wraps
\* when exposure * hmax is less than offset, the result a uint32_t
calculate_shr_u64(exposure, hmax, vmax, svr, offset) ==
  LET temp == WDiv(WSub(WMul(WTrunc32(exposure), W(hmax)), W(offset)), hmax)
  IN  WTrunc32(WSub(WMul(vmax, W(svr + 1)), temp))

\* variant of VmaxOf: the result kept in a 16-bit field, as HMAX is
VmaxOf_u16(m, vblank) ==
  ((supported_modes_12bit[m].height + vblank) \div supported_modes_12bit[m].VMAX_scale) % U16

\* VMAX as imx294_set_ctrl derives it from a vertical-blank value
VmaxOf(m, vblank) == (supported_modes_12bit[m].height + vblank) \div supported_modes_12bit[m].VMAX_scale

\* variant of HmaxOf: the pixel rate doubled, as imx294_set_framing_limits has it
HmaxOf_double_rate(m, hblank) ==
  LET md == supported_modes_12bit[m]
      pixel_rate == MulDiv(2 * md.width, BASE_CLOCK, md.min_HMAX)
  IN  MulDiv(md.width + hblank, BASE_CLOCK, pixel_rate) % U16

\* HMAX as imx294_set_ctrl derives it from a horizontal-blank value (u16 field)
HmaxOf(m, hblank) ==
  LET md == supported_modes_12bit[m]
      pixel_rate == MulDiv(md.width, BASE_CLOCK, md.min_HMAX)
  IN  MulDiv(md.width + hblank, BASE_CLOCK, pixel_rate) % U16

\* pixel rate and default horizontal blank of imx294_set_framing_limits
FramingPixelRate(m) ==
  MulDiv(2 * supported_modes_12bit[m].width, BASE_CLOCK, supported_modes_12bit[m].min_HMAX)

DefHblank(m) ==
  MulDiv(supported_modes_12bit[m].default_HMAX, FramingPixelRate(m), BASE_CLOCK)
    - supported_modes_12bit[m].width

VblankMin(m) ==
  supported_modes_12bit[m].min_VMAX * supported_modes_12bit[m].VMAX_scale - supported_modes_12bit[m].height
VblankMax(m) ==
  IMX294_VMAX_MAX * supported_modes_12bit[m].VMAX_scale - supported_modes_12bit[m].height
\* variant of VblankDef: taken from the least vertical period
VblankDef_from_min(m) ==
  supported_modes_12bit[m].min_VMAX * supported_modes_12bit[m].VMAX_scale - supported_modes_12bit[m].height

VblankDef(m) ==
  supported_modes_12bit[m].default_VMAX * supported_modes_12bit[m].VMAX_scale - supported_modes_12bit[m].height

\* ---------------------------------------------------------------- state
\* Control identifiers, in the order imx294_init_controls adds them to the handler.
CtrlIds == <<"pixel_rate", "vblank", "hblank", "exposure", "gain">>

\* variant of ReplayOrder: the horizontal blank created before the vertical blank
ReplayOrder_hblank_first == <<"hblank", "vblank", "exposure", "gain">>

\* The writable controls __v4l2_ctrl_handler_setup applies, in handler order
\* (the pixel rate is created read-only and is skipped).
ReplayOrder == SelectSeq(CtrlIds, LAMBDA c : c # "pixel_rate")

\* "drv" issues the streaming transitions (s_stream, system suspend and resume),
\* "usr" issues control writes and format changes.
Threads == {"drv", "usr"}

\* the device registers whose contents the model follows
TrackedRegs == {IMX294_REG_MODE_SELECT}

\* MDSEL1, the first register of every mode list; its value is 0x00 in
\* mode_00_regs, 0x1A in mode_01_regs, 0x01 in mode_01A_regs and 0x02 in
\* mode_01B_regs
REG_MODE_LIST_HEAD == 12292

\* the registers followed in addition where the device's line, shutter and
\* mode settings are looked at: both bytes of HMAX, HCOUNT1, HCOUNT2 and SHR,
\* and the head of the mode lists
TimingRegs ==
  {IMX294_REG_HMAX, IMX294_REG_HMAX + 1, IMX294_REG_HCOUNT1, IMX294_REG_HCOUNT1 + 1,
   IMX294_REG_HCOUNT2, IMX294_REG_HCOUNT2 + 1, IMX294_REG_SHR, IMX294_REG_SHR + 1,
   REG_MODE_LIST_HEAD}

VARIABLES
  streaming,            \* imx294->streaming
  common_regs_written,  \* imx294->common_regs_written
  mode,                 \* imx294->mode, an index into supported_modes_12bit
  HMAX, VMAX,           \* imx294->HMAX (u16), imx294->VMAX (u32)
  ctrl,                 \* the control handler: id -> [val, min, max]
  usage_count,          \* runtime-PM usage counter of the device
  powered,              \* runtime-PM status is active (imx294_power_on has run)
  suspended,            \* between imx294_suspend and imx294_resume
  mutex,                \* imx294->mutex: "free" or the holding thread
  pc,                   \* position of each thread
  op,                   \* the call each thread is running, with its locals
  log,                  \* per thread: transport and power calls of its current call
  regs,                 \* device registers: last value written since power-up, -1 = reset
  hw,                   \* device since power-up: complete common blocks, mode list seen
  faults,               \* transport and power failures so far
  calls,                \* control and format calls so far
  calc                  \* arguments and results of the exposure calculations

vars == <<streaming, common_regs_written, mode, HMAX, VMAX, ctrl, usage_count, powered,
          suspended, mutex, pc, op, log, regs, hw, faults, calls, calc>>

NoOp == [name |-> "none", a |-> "none", v |-> 0, i |-> 0, ret |-> 0, ri |-> 0,
         w |-> <<>>, cs |-> <<>>, fw |-> 0, fh |-> 0, past |-> FALSE, nm |-> 0, sel |-> 0]

\* the registers of the set S at their reset values
ResetOf(S) == [x \in S |-> -1]

RegsReset == ResetOf(DOMAIN regs)

\* What the device has received since it was powered up: seen counts the
\* records of the common block received in order in the pass under way, blocks
\* the complete passes, modeWritten whether a mode-list write arrived.
HwReset == [seen |-> 0, blocks |-> 0, modeWritten |-> FALSE]

\* the device after record i of the n-record list tag went out with result ok
Observe(h, tag, i, n, ok) ==
  IF tag = "common"
  THEN IF ~ok \/ i # h.seen + 1 THEN [h EXCEPT !.seen = 0]
       ELSE IF i = n THEN [h EXCEPT !.seen = 0, !.blocks = Min(h.blocks + 1, 2)]
       ELSE [h EXCEPT !.seen = i]
  ELSE IF ok THEN [h EXCEPT !.modeWritten = TRUE] ELSE h

\* The controls as imx294_init_controls creates them and imx294_set_framing_limits
\* ranges them for mode m on an unpowered device.
FramedCtrl(m, old) ==
  LET vmax == VmaxOf(m, VblankDef(m))
      er == calculate_min_max_v4l2_cid_exposure(supported_modes_12bit[m].default_HMAX, vmax,
                supported_modes_12bit[m].min_SHR, 0, supported_modes_12bit[m].integration_offset)
  IN  [old EXCEPT
         !["pixel_rate"] = [val |-> FramingPixelRate(m), min |-> FramingPixelRate(m),
                            max |-> FramingPixelRate(m)],
         !["hblank"] = [val |-> DefHblank(m), min |-> 0, max |-> IMX294_HMAX_MAX],
         !["vblank"] = [val |-> VblankDef(m), min |-> VblankMin(m), max |-> VblankMax(m)],
         !["exposure"] = [val |-> Clamp(old["exposure"].val, er[1], er[2]),
                          min |-> er[1], max |-> er[2]] ]

CreatedCtrl ==
  [c \in {"pixel_rate", "vblank", "hblank", "exposure", "gain"} |->
     CASE c = "pixel_rate" -> [val |-> 65535, min |-> 65535, max |-> 65535]
       [] c = "vblank" -> [val |-> 0, min |-> 0, max |-> IMX294_VMAX_MAX]
       [] c = "hblank" -> [val |-> 0, min |-> 0, max |-> IMX294_HMAX_MAX]
       [] c = "exposure" -> [val |-> IMX294_EXPOSURE_DEFAULT, min |-> IMX294_EXPOSURE_MIN,
                             max |-> IMX294_EXPOSURE_MAX]
       [] c = "gain" -> [val |-> IMX294_ANA_GAIN_DEFAULT, min |-> IMX294_ANA_GAIN_MIN,
                         max |-> IMX294_ANA_GAIN_MAX] ]

\* The state imx294_probe leaves: default format (first catalog entry), device
\* runtime-suspended, controls created and framed, not streaming.  f failures
\* have been spent; the device registers of the set tracked are followed.
InitWith(f, tracked) ==
  /\ streaming = FALSE
  /\ common_regs_written = FALSE
  /\ mode = 1
  /\ HMAX = supported_modes_12bit[1].default_HMAX
  /\ VMAX = VmaxOf(1, VblankDef(1))
  /\ ctrl = FramedCtrl(1, CreatedCtrl)
  /\ usage_count = 0
  /\ powered = FALSE
  /\ suspended = FALSE
  /\ mutex = "free"
  /\ pc = [t \in Threads |-> "idle"]
  /\ op = [t \in Threads |-> NoOp]
  /\ log = [t \in Threads |-> <<>>]
  /\ regs = ResetOf(tracked)
  /\ hw = HwReset
  /\ faults = f
  /\ calls = 0

InitState(f) == InitWith(f, TrackedRegs)

\* no exposure calculation under way
NoCalc ==
  [stage |-> "none", hmax |-> 0, vmax |-> W(0), shr |-> W(0), svr |-> 0, offset |-> 0,
   exposure |-> W(0), back |-> W(0), limits |-> <<W(0), W(0)>>]

Init == InitState(0) /\ calc = NoCalc

\* ---------------------------------------------------------------- bounds
\* at most this many transport or power calls fail in one run
MaxFaults == 1
\* at most this many control-set and format-change calls are made in one run
MaxCalls == 2

\* ---------------------------------------------------------------- helpers
\* i2c_master_send of len data bytes, least significant first, from address addr
Store(r, addr, len, val) ==
  [x \in DOMAIN r |->
     IF x >= addr /\ x < addr + len
     THEN CASE x - addr = 0 -> val % 256
            [] x - addr = 1 -> (val \div 256) % 256
            [] OTHER -> (val \div U16) % 256
     ELSE r[x]]

\* one register-transport call by thread t: observed by the transport whether
\* or not it succeeds, stored by the device when it succeeds.  A log entry is
\* <<kind, address, length, value, ok, tag>>; the tag names the place that
\* issued the call (a register list, the control being set, the standby write).
Outcomes == IF faults < MaxFaults THEN {TRUE, FALSE} ELSE {TRUE}

DoWrite(t, addr, len, val, ok, tag) ==
  /\ ok \in Outcomes
  /\ faults' = IF ok THEN faults ELSE faults + 1
  /\ log' = [log EXCEPT ![t] = Append(@, <<"w", addr, len, val, ok, tag>>)]
  /\ regs' = IF ok THEN Store(regs, addr, len, val) ELSE regs

\* the call of thread t ends with return value r
Finish(t, r) ==
  /\ pc' = [pc EXCEPT ![t] = "done"]
  /\ op' = [op EXCEPT ![t].ret = r]

\* return r from imx294_set_ctrl to the caller's continuation
PopTo(t, r) ==
  LET f == Head(op[t].cs)
  IN  /\ pc' = [pc EXCEPT ![t] = f[1]]
      /\ op' = [op EXCEPT ![t] = [@ EXCEPT !.ret = r, !.a = f[2], !.v = f[3],
                                            !.cs = Tail(op[t].cs), !.w = <<>>, !.i = 0]]

\* variant of StartPc: the test of common_regs_written inverted
StartPc_inverted == IF common_regs_written THEN "st_common" ELSE "st_mode"

\* where imx294_start_streaming begins
StartPc == IF common_regs_written THEN "st_mode" ELSE "st_common"

\* No call is in progress.  The entry points are called one at a time: the
\* V4L2 entry points take imx294->mutex, and the system-sleep callbacks run
\* while the tasks that make those calls are frozen.
Quiet == \A t \in Threads : pc[t] = "idle"

\* ---------------------------------------------------------------- runtime PM
\* The runtime-PM core suspends the idle device: imx294_power_off.
imx294_power_off ==
  /\ powered /\ usage_count = 0
  /\ powered' = FALSE
  /\ common_regs_written' = FALSE
  /\ regs' = RegsReset
  /\ hw' = HwReset
  /\ UNCHANGED <<streaming, mode, HMAX, VMAX, ctrl, usage_count, suspended, mutex, pc, op, log, faults>>
  /\ UNCHANGED <<calls, calc>>

\* variant of imx294_set_stream: the early return taken only for a repeated enable
imx294_set_stream_enable_only(enable) ==
  /\ Quiet /\ mutex = "free" /\ ~suspended
  /\ log' = [log EXCEPT !["drv"] = <<>>]
  /\ IF streaming /\ enable
     THEN /\ pc' = [pc EXCEPT !["drv"] = "done"]
          /\ op' = [op EXCEPT !["drv"] = [NoOp EXCEPT !.name = "set_stream",
                                         !.a = IF enable THEN "on" ELSE "off"]]
          /\ UNCHANGED mutex
     ELSE /\ pc' = [pc EXCEPT !["drv"] = IF enable THEN "ss_get" ELSE "ss_stop"]
          /\ op' = [op EXCEPT !["drv"] = [NoOp EXCEPT !.name = "set_stream",
                                         !.a = IF enable THEN "on" ELSE "off"]]
          /\ mutex' = "drv"
  /\ UNCHANGED <<streaming, common_regs_written, mode, HMAX, VMAX, ctrl, usage_count,
                 powered, suspended, regs, hw, faults>>
  /\ UNCHANGED <<calls, calc>>

\* ---------------------------------------------------------------- imx294_set_stream
\* mutex_lock, then the "streaming == enable" early return
imx294_set_stream(enable) ==
  /\ Quiet /\ mutex = "free" /\ ~suspended
  /\ log' = [log EXCEPT !["drv"] = <<>>]
  /\ IF streaming = enable
     THEN /\ pc' = [pc EXCEPT !["drv"] = "done"]
          /\ op' = [op EXCEPT !["drv"] = [NoOp EXCEPT !.name = "set_stream",
                                         !.a = IF enable THEN "on" ELSE "off"]]
          /\ UNCHANGED mutex
     ELSE /\ pc' = [pc EXCEPT !["drv"] = IF enable THEN "ss_get" ELSE "ss_stop"]
          /\ op' = [op EXCEPT !["drv"] = [NoOp EXCEPT !.name = "set_stream",
                                         !.a = IF enable THEN "on" ELSE "off"]]
          /\ mutex' = "drv"
  /\ UNCHANGED <<streaming, common_regs_written, mode, HMAX, VMAX, ctrl, usage_count,
                 powered, suspended, regs, hw, faults>>
  /\ UNCHANGED <<calls, calc>>

\* variant of SsGet: the result of pm_runtime_get_sync is not tested
SsGet_unchecked ==
  /\ pc["drv"] = "ss_get"
  /\ \/ /\ powered
        /\ usage_count' = usage_count + 1
        /\ log' = [log EXCEPT !["drv"] = Append(@, <<"pm_runtime_get_sync", 0, 0, 0, TRUE, "pm">>)]
        /\ pc' = [pc EXCEPT !["drv"] = StartPc]
        /\ op' = [op EXCEPT !["drv"].i = 1]
        /\ UNCHANGED <<powered, regs, hw, mutex, faults>>
     \/ /\ ~powered
        /\ usage_count' = usage_count + 1
        /\ powered' = TRUE
        /\ regs' = RegsReset
        /\ hw' = HwReset
        /\ log' = [log EXCEPT !["drv"] = Append(@, <<"pm_runtime_get_sync", 0, 0, 0, TRUE, "pm">>)]
        /\ pc' = [pc EXCEPT !["drv"] = StartPc]
        /\ op' = [op EXCEPT !["drv"].i = 1]
        /\ UNCHANGED <<mutex, faults>>
     \/ /\ ~powered /\ faults < MaxFaults
        /\ faults' = faults + 1
        /\ log' = [log EXCEPT !["drv"] =
                     Append(@, <<"pm_runtime_get_sync", 0, 0, 0, FALSE, "pm">>)]
        /\ pc' = [pc EXCEPT !["drv"] = StartPc]
        /\ op' = [op EXCEPT !["drv"].i = 1]
        /\ UNCHANGED <<usage_count, powered, regs, hw, mutex>>
  /\ UNCHANGED <<streaming, common_regs_written, mode, HMAX, VMAX, ctrl, suspended>>
  /\ UNCHANGED <<calls, calc>>

\* pm_runtime_get_sync: takes a reference and, when the device is suspended,
\* runs imx294_power_on, which can fail; on failure pm_runtime_put_noidle and
\* err_unlock
SsGet ==
  /\ pc["drv"] = "ss_get"
  /\ \/ /\ powered
        /\ usage_count' = usage_count + 1
        /\ log' = [log EXCEPT !["drv"] = Append(@, <<"pm_runtime_get_sync", 0, 0, 0, TRUE, "pm">>)]
        /\ pc' = [pc EXCEPT !["drv"] = StartPc]
        /\ op' = [op EXCEPT !["drv"].i = 1]
        /\ UNCHANGED <<powered, regs, hw, mutex, faults>>
     \/ /\ ~powered
        /\ usage_count' = usage_count + 1
        /\ powered' = TRUE
        /\ regs' = RegsReset
        /\ hw' = HwReset
        /\ log' = [log EXCEPT !["drv"] = Append(@, <<"pm_runtime_get_sync", 0, 0, 0, TRUE, "pm">>)]
        /\ pc' = [pc EXCEPT !["drv"] = StartPc]
        /\ op' = [op EXCEPT !["drv"].i = 1]
        /\ UNCHANGED <<mutex, faults>>
     \/ /\ ~powered /\ faults < MaxFaults
        /\ faults' = faults + 1
        /\ log' = [log EXCEPT !["drv"] =
                     @ \o << <<"pm_runtime_get_sync", 0, 0, 0, FALSE, "pm">>,
                             <<"pm_runtime_put_noidle", 0, 0, 0, TRUE, "pm">> >>]
        /\ mutex' = "free"
        /\ Finish("drv", -EPOWER)
        /\ UNCHANGED <<usage_count, powered, regs, hw>>
  /\ UNCHANGED <<streaming, common_regs_written, mode, HMAX, VMAX, ctrl, suspended>>
  /\ UNCHANGED <<calls, calc>>

\* variant of WriteRegsStep: a failed write is recorded but the list goes on
WriteRegsStep_continue(list, after, tag) ==
  LET i == op["drv"].i
      r == list[i]
      next == IF i = Len(list) THEN after ELSE pc["drv"]
  IN  \/ /\ r[1] = REG_DELAY
         /\ log' = [log EXCEPT !["drv"] = Append(@, <<"delay", r[1], 0, r[2], TRUE, tag>>)]
         /\ hw' = Observe(hw, tag, i, Len(list), TRUE)
         /\ UNCHANGED <<regs, faults>>
         /\ pc' = [pc EXCEPT !["drv"] = next]
         /\ op' = [op EXCEPT !["drv"].i = IF i = Len(list) THEN 1 ELSE i + 1]
      \/ /\ r[1] # REG_DELAY
         /\ DoWrite("drv", r[1], 1, r[2], TRUE, tag)
         /\ hw' = Observe(hw, tag, i, Len(list), TRUE)
         /\ pc' = [pc EXCEPT !["drv"] = next]
         /\ op' = [op EXCEPT !["drv"].i = IF i = Len(list) THEN 1 ELSE i + 1]
      \/ /\ r[1] # REG_DELAY
         /\ DoWrite("drv", r[1], 1, r[2], FALSE, tag)
         /\ hw' = Observe(hw, tag, i, Len(list), FALSE)
         /\ pc' = [pc EXCEPT !["drv"] = next]
         /\ op' = [op EXCEPT !["drv"].ret = -EIO,
                             !["drv"].i = IF i = Len(list) THEN 1 ELSE i + 1]

\* ---------------------------------------------------------------- imx294_start_streaming
\* One record of a register list (imx294_write_regs): a delay directive pauses,
\* any other record is one 1-byte transport call; the first failing call ends
\* the list with its error.  after is the position that follows the list.
WriteRegsStep(list, after, tag) ==
  LET i == op["drv"].i
      r == list[i]
      next == IF i = Len(list) THEN after ELSE pc["drv"]
  IN  \/ /\ r[1] = REG_DELAY
         /\ log' = [log EXCEPT !["drv"] = Append(@, <<"delay", r[1], 0, r[2], TRUE, tag>>)]
         /\ hw' = Observe(hw, tag, i, Len(list), TRUE)
         /\ UNCHANGED <<regs, faults>>
         /\ pc' = [pc EXCEPT !["drv"] = next]
         /\ op' = [op EXCEPT !["drv"].i = IF i = Len(list) THEN 1 ELSE i + 1]
      \/ /\ r[1] # REG_DELAY
         /\ DoWrite("drv", r[1], 1, r[2], TRUE, tag)
         /\ hw' = Observe(hw, tag, i, Len(list), TRUE)
         /\ pc' = [pc EXCEPT !["drv"] = next]
         /\ op' = [op EXCEPT !["drv"].i = IF i = Len(list) THEN 1 ELSE i + 1]
      \/ /\ r[1] # REG_DELAY
         /\ DoWrite("drv", r[1], 1, r[2], FALSE, tag)
         /\ hw' = Observe(hw, tag, i, Len(list), FALSE)
         /\ pc' = [pc EXCEPT !["drv"] = "st_ret"]
         /\ op' = [op EXCEPT !["drv"].ret = -EIO]

\* the common block, written when common_regs_written is false; the flag is
\* set once the whole block went through
StCommon ==
  /\ pc["drv"] = "st_common"
  /\ WriteRegsStep(mode_common_regs, "st_mode", "common")
  /\ common_regs_written' = (pc'["drv"] = "st_mode")
  /\ UNCHANGED <<streaming, mode, HMAX, VMAX, ctrl, usage_count, powered, suspended, mutex>>
  /\ UNCHANGED <<calls, calc>>

\* the register list of the current mode
StMode ==
  /\ pc["drv"] = "st_mode"
  /\ WriteRegsStep(supported_modes_12bit[mode].reg_list, "st_replay", "mode")
  /\ UNCHANGED <<streaming, common_regs_written, mode, HMAX, VMAX, ctrl, usage_count,
                 powered, suspended, mutex>>
  /\ UNCHANGED <<calls, calc>>

\* __v4l2_ctrl_handler_setup: s_ctrl with the current value of every writable
\* control in handler order, stopping at the first error
StReplay ==
  /\ pc["drv"] = "st_replay"
  /\ LET o == op["drv"] IN
     IF o.ret # 0 \/ o.ri >= Len(ReplayOrder)
     THEN /\ pc' = [pc EXCEPT !["drv"] = "st_ret"]
          /\ op' = op
     ELSE /\ pc' = [pc EXCEPT !["drv"] = "sc_entry"]
          /\ op' = [op EXCEPT !["drv"] =
                      [o EXCEPT !.ri = o.ri + 1,
                                !.a = ReplayOrder[o.ri + 1],
                                !.v = ctrl[ReplayOrder[o.ri + 1]].val,
                                !.cs = <<<<"st_replay", o.a, o.v>>>> \o o.cs]]
  /\ UNCHANGED <<streaming, common_regs_written, mode, HMAX, VMAX, ctrl, usage_count,
                 powered, suspended, mutex, log, regs, hw, faults>>
  /\ UNCHANGED <<calls, calc>>

\* imx294_start_streaming returns to imx294_set_stream (err_rpm_put, or
\* streaming = enable) or to imx294_resume (the error label, or return 0)
StRet ==
  /\ pc["drv"] = "st_ret"
  /\ LET o == op["drv"] IN
     IF o.name = "set_stream"
     THEN /\ IF o.ret # 0
             THEN /\ usage_count' = usage_count - 1
                  /\ log' = [log EXCEPT !["drv"] = Append(@, <<"pm_runtime_put", 0, 0, 0, TRUE, "pm">>)]
                  /\ UNCHANGED streaming
             ELSE /\ streaming' = TRUE
                  /\ UNCHANGED <<usage_count, log>>
          /\ mutex' = "free"
          /\ Finish("drv", o.ret)
          /\ UNCHANGED suspended
     ELSE /\ IF o.ret # 0
             THEN /\ pc' = [pc EXCEPT !["drv"] = "rs_stop"]
                  /\ UNCHANGED <<op, suspended>>
             ELSE /\ suspended' = FALSE
                  /\ Finish("drv", 0)
          /\ UNCHANGED <<streaming, usage_count, log, mutex>>
  /\ UNCHANGED <<common_regs_written, mode, HMAX, VMAX, ctrl, powered, regs, hw, faults>>
  /\ UNCHANGED <<calls, calc>>

\* variant of SsStop: the result of the standby write is returned
SsStop_report ==
  /\ pc["drv"] = "ss_stop"
  /\ \E ok \in Outcomes :
       /\ faults' = IF ok THEN faults ELSE faults + 1
       /\ regs' = IF ok THEN Store(regs, IMX294_REG_MODE_SELECT, 1, IMX294_MODE_STANDBY) ELSE regs
       /\ log' = [log EXCEPT !["drv"] =
                    @ \o << <<"w", IMX294_REG_MODE_SELECT, 1, IMX294_MODE_STANDBY, ok, "stop">>,
                            <<"pm_runtime_put", 0, 0, 0, TRUE, "pm">> >>]
  /\ usage_count' = usage_count - 1
  /\ streaming' = FALSE
  /\ mutex' = "free"
  /\ Finish("drv", IF faults' # faults THEN -EIO ELSE 0)
  /\ UNCHANGED <<common_regs_written, mode, HMAX, VMAX, ctrl, powered, suspended, hw>>
  /\ UNCHANGED <<calls, calc>>

\* ---------------------------------------------------------------- imx294_stop_streaming
\* disable: the standby write (its result is only logged), pm_runtime_put,
\* streaming = enable
SsStop ==
  /\ pc["drv"] = "ss_stop"
  /\ \E ok \in Outcomes :
       /\ faults' = IF ok THEN faults ELSE faults + 1
       /\ regs' = IF ok THEN Store(regs, IMX294_REG_MODE_SELECT, 1, IMX294_MODE_STANDBY) ELSE regs
       /\ log' = [log EXCEPT !["drv"] =
                    @ \o << <<"w", IMX294_REG_MODE_SELECT, 1, IMX294_MODE_STANDBY, ok, "stop">>,
                            <<"pm_runtime_put", 0, 0, 0, TRUE, "pm">> >>]
  /\ usage_count' = usage_count - 1
  /\ streaming' = FALSE
  /\ mutex' = "free"
  /\ Finish("drv", 0)
  /\ UNCHANGED <<common_regs_written, mode, HMAX, VMAX, ctrl, powered, suspended, hw>>
  /\ UNCHANGED <<calls, calc>>

\* ---------------------------------------------------------------- system sleep
imx294_suspend ==
  /\ Quiet /\ ~suspended
  /\ suspended' = TRUE
  /\ log' = [log EXCEPT !["drv"] = <<>>]
  /\ op' = [op EXCEPT !["drv"] = [NoOp EXCEPT !.name = "suspend"]]
  /\ pc' = [pc EXCEPT !["drv"] = IF streaming THEN "su_stop" ELSE "done"]
  /\ UNCHANGED <<streaming, common_regs_written, mode, HMAX, VMAX, ctrl, usage_count,
                 powered, mutex, regs, hw, faults>>
  /\ UNCHANGED <<calls, calc>>

\* variant of SuStop: the streaming flag is cleared by the suspend
SuStop_clear ==
  /\ pc["drv"] = "su_stop"
  /\ \E ok \in BOOLEAN : DoWrite("drv", IMX294_REG_MODE_SELECT, 1, IMX294_MODE_STANDBY, ok, "stop")
  /\ Finish("drv", 0)
  /\ streaming' = FALSE
  /\ UNCHANGED <<common_regs_written, mode, HMAX, VMAX, ctrl, usage_count,
                 powered, suspended, mutex, hw>>
  /\ UNCHANGED <<calls, calc>>

SuStop ==
  /\ pc["drv"] = "su_stop"
  /\ \E ok \in BOOLEAN : DoWrite("drv", IMX294_REG_MODE_SELECT, 1, IMX294_MODE_STANDBY, ok, "stop")
  /\ Finish("drv", 0)
  /\ UNCHANGED <<streaming, common_regs_written, mode, HMAX, VMAX, ctrl, usage_count,
                 powered, suspended, mutex, hw>>
  /\ UNCHANGED <<calls, calc>>

imx294_resume ==
  /\ Quiet /\ suspended
  /\ log' = [log EXCEPT !["drv"] = <<>>]
  /\ op' = [op EXCEPT !["drv"] = [NoOp EXCEPT !.name = "resume", !.i = 1]]
  /\ pc' = [pc EXCEPT !["drv"] = IF streaming THEN StartPc ELSE "done"]
  /\ suspended' = IF streaming THEN suspended ELSE FALSE
  /\ UNCHANGED <<streaming, common_regs_written, mode, HMAX, VMAX, ctrl, usage_count,
                 powered, mutex, regs, hw, faults>>
  /\ UNCHANGED <<calls, calc>>

\* the error label of imx294_resume: stop streaming, streaming = 0, return ret
RsStop ==
  /\ pc["drv"] = "rs_stop"
  /\ \E ok \in BOOLEAN : DoWrite("drv", IMX294_REG_MODE_SELECT, 1, IMX294_MODE_STANDBY, ok, "stop")
  /\ streaming' = FALSE
  /\ suspended' = FALSE
  /\ Finish("drv", op["drv"].ret)
  /\ UNCHANGED <<common_regs_written, mode, HMAX, VMAX, ctrl, usage_count, powered, mutex, hw>>
  /\ UNCHANGED <<calls, calc>>

\* the caller takes the result; the thread is free for its next call
Return(t) ==
  /\ pc[t] = "done"
  /\ pc' = [pc EXCEPT ![t] = "idle"]
  /\ op' = [op EXCEPT ![t] = NoOp]
  /\ log' = [log EXCEPT ![t] = <<>>]
  /\ UNCHANGED <<streaming, common_regs_written, mode, HMAX, VMAX, ctrl, usage_count,
                 powered, suspended, mutex, regs, hw, faults>>
  /\ UNCHANGED <<calls, calc>>

\* ---------------------------------------------------------------- imx294_set_ctrl
\* variant of CtrlWrites: the vertical-blank case without the write of PSSLVS0
CtrlWrites_four(id, v, m, hmax, vmax) ==
  LET md == supported_modes_12bit[m]
      vblk == vmax - md.min_VMAX
  IN  CASE id = "exposure" ->
             << <<IMX294_REG_SHR, 2, calculate_shr(v, hmax, vmax, 0, md.integration_offset) % U16>> >>
        [] id = "gain" ->
             << <<IMX294_REG_ANALOG_GAIN, 2, v % U16>> >>
        [] id = "vblank" ->
             << <<IMX294_REG_VMAX, 3, vmax % U24>>,
                <<IMX294_REG_PSSLVS1, 2, vblk % U16>>,
                <<IMX294_REG_PSSLVS2, 2, vblk % U16>>,
                <<IMX294_REG_PSSLVS3, 2, vblk % U16>>,
                <<IMX294_REG_PSSLVS4, 2, IF vblk >= 0 /\ vblk <= 5 THEN 0 ELSE (vblk - 5) % U16>> >>
        [] id = "hblank" ->
             << <<IMX294_REG_HMAX, 2, hmax>>,
                <<IMX294_REG_HCOUNT1, 2, hmax>>,
                <<IMX294_REG_HCOUNT2, 2, hmax>> >>
        [] OTHER -> <<>>

\* The register writes of the switch in imx294_set_ctrl for control id with
\* value v, as <<address, length, value>> in program order; hmax and vmax are
\* the period fields after the case has updated them.
CtrlWrites(id, v, m, hmax, vmax) ==
  LET md == supported_modes_12bit[m]
      vblk == vmax - md.min_VMAX
  IN  CASE id = "exposure" ->
             << <<IMX294_REG_SHR, 2, calculate_shr(v, hmax, vmax, 0, md.integration_offset) % U16>> >>
        [] id = "gain" ->
             << <<IMX294_REG_ANALOG_GAIN, 2, v % U16>> >>
        [] id = "vblank" ->
             << <<IMX294_REG_VMAX, 3, vmax % U24>>,
                <<IMX294_REG_PSSLVS1, 2, vblk % U16>>,
                <<IMX294_REG_PSSLVS2, 2, vblk % U16>>,
                <<IMX294_REG_PSSLVS3, 2, vblk % U16>>,
                <<IMX294_REG_PSSLVS4, 2, IF vblk >= 0 /\ vblk <= 5 THEN 0 ELSE (vblk - 5) % U16>>,
                <<IMX294_REG_PSSLVS0, 2, vblk % U16>> >>
        [] id = "hblank" ->
             << <<IMX294_REG_HMAX, 2, hmax>>,
                <<IMX294_REG_HCOUNT1, 2, hmax>>,
                <<IMX294_REG_HCOUNT2, 2, hmax>> >>
        [] OTHER -> <<>>

\* Entry of imx294_set_ctrl.  For V4L2_CID_VBLANK: VMAX is set from the value,
\* the exposure limits are recomputed and __v4l2_ctrl_modify_range re-ranges
\* the exposure control; when that moves the exposure value the framework
\* applies it through a nested imx294_set_ctrl call.
ScEntry(t) ==
  /\ pc[t] = "sc_entry"
  /\ LET o == op[t]
         md == supported_modes_12bit[mode]
         vmax == VmaxOf(mode, o.v)
         er == calculate_min_max_v4l2_cid_exposure(HMAX, vmax, md.min_SHR, 0, md.integration_offset)
         newexp == Clamp(ctrl["exposure"].val, er[1], er[2])
     IN  IF o.a = "vblank"
         THEN /\ VMAX' = vmax
              /\ ctrl' = [ctrl EXCEPT !["exposure"].min = er[1], !["exposure"].max = er[2]]
              /\ IF newexp # ctrl["exposure"].val
                 THEN /\ pc' = [pc EXCEPT ![t] = "sc_entry"]
                      /\ op' = [op EXCEPT ![t] =
                                  [o EXCEPT !.a = "exposure", !.v = newexp,
                                            !.cs = <<<<"sc_exp", o.a, o.v>>>> \o o.cs]]
                 ELSE /\ pc' = [pc EXCEPT ![t] = "sc_pm"]
                      /\ op' = op
         ELSE /\ pc' = [pc EXCEPT ![t] = "sc_pm"]
              /\ UNCHANGED <<VMAX, ctrl, op>>
  /\ UNCHANGED <<streaming, common_regs_written, mode, HMAX, usage_count, powered, suspended,
                 mutex, log, regs, hw, faults>>
  /\ UNCHANGED <<calls, calc>>

\* variant of ScExp: the clamped exposure value is not stored
ScExp_keep(t) ==
  /\ pc[t] = "sc_exp"
  /\ pc' = [pc EXCEPT ![t] = "sc_pm"]
  /\ op' = [op EXCEPT ![t].ret = 0]
  /\ UNCHANGED <<streaming, common_regs_written, mode, HMAX, VMAX, ctrl, usage_count, powered,
                 suspended, mutex, log, regs, hw, faults>>
  /\ UNCHANGED <<calls, calc>>

\* the nested exposure call returned: the framework stores the clamped value
\* when the handler accepted it
ScExp(t) ==
  /\ pc[t] = "sc_exp"
  /\ ctrl' = IF op[t].ret = 0
             THEN [ctrl EXCEPT !["exposure"].val = Clamp(@, ctrl["exposure"].min, ctrl["exposure"].max)]
             ELSE ctrl
  /\ pc' = [pc EXCEPT ![t] = "sc_pm"]
  /\ op' = [op EXCEPT ![t].ret = 0]
  /\ UNCHANGED <<streaming, common_regs_written, mode, HMAX, VMAX, usage_count, powered,
                 suspended, mutex, log, regs, hw, faults>>
  /\ UNCHANGED <<calls, calc>>

\* variant of ScPm: the switch runs without the pm_runtime_get_if_in_use test
ScPm_unconditional(t) ==
  /\ pc[t] = "sc_pm"
  /\ LET o == op[t]
         hmax == IF o.a = "hblank" THEN HmaxOf(mode, o.v) ELSE HMAX
         vmax == IF o.a = "vblank" THEN VmaxOf(mode, o.v) ELSE VMAX
         w == CtrlWrites(o.a, o.v, mode, hmax, vmax)
     IN  IF w = <<>>
         THEN /\ PopTo(t, -EINVAL)
              /\ UNCHANGED <<HMAX, VMAX, usage_count>>
         ELSE /\ HMAX' = hmax
              /\ VMAX' = vmax
              /\ usage_count' = usage_count + 1
              /\ pc' = [pc EXCEPT ![t] = "sc_w"]
              /\ op' = [op EXCEPT ![t] = [o EXCEPT !.w = w, !.i = 1, !.ret = 0]]
  /\ UNCHANGED <<streaming, common_regs_written, mode, ctrl, powered, suspended, mutex,
                 log, regs, hw, faults>>
  /\ UNCHANGED <<calls, calc>>

\* pm_runtime_get_if_in_use: without a held reference on an active device the
\* call returns 0 here; otherwise a reference is taken and the switch runs up
\* to its first register write (an unhandled id ends with -EINVAL and
\* pm_runtime_put)
ScPm(t) ==
  /\ pc[t] = "sc_pm"
  /\ LET o == op[t]
         hmax == IF o.a = "hblank" THEN HmaxOf(mode, o.v) ELSE HMAX
         vmax == IF o.a = "vblank" THEN VmaxOf(mode, o.v) ELSE VMAX
         w == CtrlWrites(o.a, o.v, mode, hmax, vmax)
     IN  IF ~(powered /\ usage_count > 0)
         THEN /\ PopTo(t, 0)
              /\ UNCHANGED <<HMAX, VMAX, usage_count>>
         ELSE IF w = <<>>
         THEN /\ PopTo(t, -EINVAL)
              /\ UNCHANGED <<HMAX, VMAX, usage_count>>
         ELSE /\ HMAX' = hmax
              /\ VMAX' = vmax
              /\ usage_count' = usage_count + 1
              /\ pc' = [pc EXCEPT ![t] = "sc_w"]
              /\ op' = [op EXCEPT ![t] = [o EXCEPT !.w = w, !.i = 1, !.ret = 0]]
  /\ UNCHANGED <<streaming, common_regs_written, mode, ctrl, powered, suspended, mutex,
                 log, regs, hw, faults>>
  /\ UNCHANGED <<calls, calc>>

\* the control whose setting issued the call of thread t: the replayed control,
\* or the control of the outermost imx294_set_ctrl call
TopCtrl(t) ==
  IF t = "drv" THEN ReplayOrder[op[t].ri] ELSE op[t].cs[Len(op[t].cs)][2]

\* one register write of the switch; every write assigns ret, so the value
\* returned after the last one (and pm_runtime_put) is the last write's result
ScWrite(t) ==
  /\ pc[t] = "sc_w"
  /\ LET o == op[t]
         r == o.w[o.i]
     IN  \E ok \in BOOLEAN :
           /\ DoWrite(t, r[1], r[2], r[3], ok, TopCtrl(t))
           /\ IF o.i = Len(o.w)
              THEN /\ usage_count' = usage_count - 1
                   /\ PopTo(t, IF ok THEN 0 ELSE -EIO)
              ELSE /\ usage_count' = usage_count
                   /\ pc' = pc
                   /\ op' = [op EXCEPT ![t] = [o EXCEPT !.i = o.i + 1,
                                                         !.ret = IF ok THEN 0 ELSE -EIO]]
  /\ UNCHANGED <<streaming, common_regs_written, mode, HMAX, VMAX, ctrl, powered, suspended,
                 mutex, hw>>
  /\ UNCHANGED <<calls, calc>>

\* ---------------------------------------------------------------- control ioctl
\* the values a caller sets, inside the control's current range
CtrlInputs(id) ==
  CASE id = "vblank" -> {ctrl[id].min}
    [] id = "hblank" -> {ctrl[id].max}
    [] id = "exposure" -> {ctrl[id].max}
    [] OTHER -> {ctrl[id].max}

\* VIDIOC_S_CTRL: the framework takes the handler lock (imx294->mutex), calls
\* imx294_set_ctrl with the new value and stores the value when it succeeded
v4l2_s_ctrl(id, val) ==
  /\ Quiet /\ mutex = "free" /\ ~suspended
  /\ val >= ctrl[id].min /\ val <= ctrl[id].max
  /\ mutex' = "usr"
  /\ log' = [log EXCEPT !["usr"] = <<>>]
  /\ op' = [op EXCEPT !["usr"] = [NoOp EXCEPT !.name = "s_ctrl", !.a = id, !.v = val,
                                             !.cs = <<<<"uc_ret", id, val>>>>]]
  /\ pc' = [pc EXCEPT !["usr"] = "sc_entry"]
  /\ UNCHANGED <<streaming, common_regs_written, mode, HMAX, VMAX, ctrl, usage_count,
                 powered, suspended, regs, hw, faults>>
  /\ calls < MaxCalls
  /\ calls' = calls + 1
  /\ UNCHANGED calc

UcRet ==
  /\ pc["usr"] = "uc_ret"
  /\ ctrl' = IF op["usr"].ret = 0 THEN [ctrl EXCEPT ![op["usr"].a].val = op["usr"].v] ELSE ctrl
  /\ mutex' = "free"
  /\ Finish("usr", op["usr"].ret)
  /\ UNCHANGED <<streaming, common_regs_written, mode, HMAX, VMAX, usage_count, powered,
                 suspended, log, regs, hw, faults>>
  /\ UNCHANGED <<calls, calc>>

\* ---------------------------------------------------------------- format change
Abs(x) == IF x < 0 THEN -x ELSE x

\* v4l2_find_nearest_size over the first n catalog entries: the entry with the
\* least |width difference| + |height difference|; the scan stops at an exact
\* match and otherwise a later entry replaces an earlier one of equal distance
\* variant of v4l2_find_nearest_size: the entry nearest in width alone
v4l2_find_nearest_size_by_width(w, h) ==
  CHOOSE k \in 1..NumModes :
    \A j \in 1..NumModes :
      Abs(supported_modes_12bit[k].width - w) <= Abs(supported_modes_12bit[j].width - w)

RECURSIVE NearestUpTo(_, _, _)
NearestUpTo(n, w, h) ==
  LET err(k) == Abs(supported_modes_12bit[k].width - w) + Abs(supported_modes_12bit[k].height - h)
  IN  IF n = 1 THEN 1
      ELSE LET b == NearestUpTo(n - 1, w, h)
           IN  IF err(b) = 0 \/ err(n) > err(b) THEN b ELSE n

v4l2_find_nearest_size(w, h) == NearestUpTo(NumModes, w, h)

\* the table of supported media-bus codes, one per flip combination
codes == <<"SRGGB12_1X12", "SGRBG12_1X12", "SGBRG12_1X12", "SBGGR12_1X12">>

\* imx294_get_format_code: the table is searched for the code and codes[i] is
\* returned for the index the loop ended at.  For a code the table does not
\* hold the loop ends at i = ARRAY_SIZE(codes) and the word behind the table is
\* read: this word may equal a media-bus code of the table or be anything
\* else.  The set of the values the call can return.
imx294_get_format_code(code) ==
  IF \E i \in 1..Len(codes) : codes[i] = code
  THEN {code}
  ELSE {codes[1], "other"}

\* get_mode_table: the number of modes of the list for the code
\* (supported_modes_12bit for the four 12-bit codes, NULL and 0 otherwise)
get_mode_table(code) ==
  IF code \in {"SRGGB12_1X12", "SGRBG12_1X12", "SGBRG12_1X12", "SBGGR12_1X12"}
  THEN NumModes
  ELSE 0

\* the codes a format change carries: the default code of the driver and one
\* the driver does not support
RequestCodes == {"SGBRG12_1X12", "Y8_1X8"}

\* the sizes a format change asks for: two catalog sizes and one that matches none
FormatRequests ==
  { <<supported_modes_12bit[1].width, supported_modes_12bit[1].height>>,
    <<supported_modes_12bit[4].width, supported_modes_12bit[4].height>>,
    <<1920, 1080>> }

\* call imx294_set_ctrl(id, val) from position of thread t, to continue at label
CallSetCtrl(t, id, val, label) ==
  /\ pc' = [pc EXCEPT ![t] = "sc_entry"]
  /\ op' = [op EXCEPT ![t] = [@ EXCEPT !.a = id, !.v = val, !.ret = 0,
                                        !.cs = <<<<label, id, val>>>> \o op[t].cs]]

\* imx294_set_pad_format on the image pad with an active format: under the
\* mutex the code is looked up, the mode list of the code is taken and the
\* nearest mode is selected from it (NULL, here 0, from the empty list).
\* imx294_update_image_pad_format then reads the width of the selected mode:
\* with no mode selected this is a NULL dereference and the call dies in an
\* oops with the mutex held.  When the selected mode differs from the current
\* one, imx294_set_framing_limits runs: the period fields take the mode's
\* defaults and the horizontal blank is set to its default.
imx294_set_pad_format(code, w, h) ==
  /\ Quiet /\ mutex = "free" /\ ~suspended
  /\ log' = [log EXCEPT !["usr"] = <<>>]
  /\ \E c \in imx294_get_format_code(code) :
       LET nm == get_mode_table(c)
           m == IF nm = 0 THEN 0 ELSE v4l2_find_nearest_size(w, h)
           o == [NoOp EXCEPT !.name = "set_fmt", !.fw = w, !.fh = h,
                             !.past = (\A i \in 1..Len(codes) : codes[i] # code),
                             !.nm = nm, !.sel = m]
       IN  IF m = 0
           THEN /\ pc' = [pc EXCEPT !["usr"] = "oops"]
                /\ op' = [op EXCEPT !["usr"] = o]
                /\ mutex' = "usr"
                /\ UNCHANGED <<mode, HMAX, VMAX>>
           ELSE IF m = mode
           THEN /\ pc' = [pc EXCEPT !["usr"] = "done"]
                /\ op' = [op EXCEPT !["usr"] = o]
                /\ UNCHANGED <<mode, HMAX, VMAX, mutex>>
           ELSE /\ mode' = m
                /\ VMAX' = supported_modes_12bit[m].default_VMAX
                /\ HMAX' = supported_modes_12bit[m].default_HMAX
                /\ mutex' = "usr"
                /\ pc' = [pc EXCEPT !["usr"] = "sc_entry"]
                /\ op' = [op EXCEPT !["usr"] =
                            [o EXCEPT !.a = "hblank", !.v = Clamp(DefHblank(m), 0, IMX294_HMAX_MAX),
                                      !.cs = <<<<"fl_hb", "hblank", Clamp(DefHblank(m), 0, IMX294_HMAX_MAX)>>>>]]
  /\ UNCHANGED <<streaming, common_regs_written, ctrl, usage_count, powered, suspended,
                 regs, hw, faults>>
  /\ calls < MaxCalls
  /\ calls' = calls + 1
  /\ UNCHANGED calc

\* imx294_set_framing_limits after the horizontal blank: the vertical blank is
\* re-ranged for the mode (a value the new range excludes is clamped and applied)
FlHb ==
  /\ pc["usr"] = "fl_hb"
  /\ LET o == op["usr"]
         c1 == IF o.ret = 0 THEN [ctrl EXCEPT !["hblank"].val = o.v] ELSE ctrl
         newv == Clamp(c1["vblank"].val, VblankMin(mode), VblankMax(mode))
     IN  /\ ctrl' = [c1 EXCEPT !["vblank"].min = VblankMin(mode), !["vblank"].max = VblankMax(mode)]
         /\ IF newv # c1["vblank"].val
            THEN CallSetCtrl("usr", "vblank", newv, "fl_vbr")
            ELSE CallSetCtrl("usr", "vblank", VblankDef(mode), "fl_vb")
  /\ UNCHANGED <<streaming, common_regs_written, mode, HMAX, VMAX, usage_count, powered,
                 suspended, mutex, log, regs, hw, faults>>
  /\ UNCHANGED <<calls, calc>>

\* then the vertical blank is set to the mode's default
FlVbr ==
  /\ pc["usr"] = "fl_vbr"
  /\ ctrl' = IF op["usr"].ret = 0 THEN [ctrl EXCEPT !["vblank"].val = op["usr"].v] ELSE ctrl
  /\ CallSetCtrl("usr", "vblank", VblankDef(mode), "fl_vb")
  /\ UNCHANGED <<streaming, common_regs_written, mode, HMAX, VMAX, usage_count, powered,
                 suspended, mutex, log, regs, hw, faults>>
  /\ UNCHANGED <<calls, calc>>

\* and the pixel-rate control is re-ranged to the mode's pixel rate
FlVb ==
  /\ pc["usr"] = "fl_vb"
  /\ LET o == op["usr"]
         c1 == IF o.ret = 0 THEN [ctrl EXCEPT !["vblank"].val = o.v] ELSE ctrl
         pr == FramingPixelRate(mode)
     IN  /\ ctrl' = [c1 EXCEPT !["pixel_rate"].min = pr, !["pixel_rate"].max = pr]
         /\ IF pr # c1["pixel_rate"].val
            THEN /\ CallSetCtrl("usr", "pixel_rate", pr, "fl_pr")
                 /\ UNCHANGED mutex
            ELSE /\ mutex' = "free"
                 /\ Finish("usr", 0)
  /\ UNCHANGED <<streaming, common_regs_written, mode, HMAX, VMAX, usage_count, powered,
                 suspended, log, regs, hw, faults>>
  /\ UNCHANGED <<calls, calc>>

FlPr ==
  /\ pc["usr"] = "fl_pr"
  /\ ctrl' = IF op["usr"].ret = 0 THEN [ctrl EXCEPT !["pixel_rate"].val = op["usr"].v] ELSE ctrl
  /\ mutex' = "free"
  /\ Finish("usr", 0)
  /\ UNCHANGED <<streaming, common_regs_written, mode, HMAX, VMAX, usage_count, powered,
                 suspended, log, regs, hw, faults>>
  /\ UNCHANGED <<calls, calc>>

\* ---------------------------------------------------------------- specification
Next ==
  \/ \E e \in BOOLEAN : imx294_set_stream(e)
  \/ SsGet
  \/ StCommon
  \/ StMode
  \/ StReplay
  \/ StRet
  \/ SsStop
  \/ imx294_suspend
  \/ SuStop
  \/ imx294_resume
  \/ RsStop
  \/ imx294_power_off
  \/ \E t \in Threads : ScEntry(t)
  \/ \E t \in Threads : ScExp(t)
  \/ \E t \in Threads : ScPm(t)
  \/ \E t \in Threads : ScWrite(t)
  \/ \E id \in {"vblank", "hblank", "exposure", "gain"} : \E val \in CtrlInputs(id) : v4l2_s_ctrl(id, val)
  \/ UcRet
  \/ \E r \in FormatRequests : \E c \in RequestCodes : imx294_set_pad_format(c, r[1], r[2])
  \/ FlHb
  \/ FlVbr
  \/ FlVb
  \/ FlPr
  \/ \E t \in Threads : Return(t)

Spec == Init /\ [][Next]_vars

\* ---------------------------------------------------------------- controls and modes
\* The control and format calls on a bus and a supply that never fail (the
\* failure budget is spent from the start), with the extreme values of every
\* control and every catalog size.
CtrlValues(id) ==
  IF id = "gain" THEN {ctrl[id].max} ELSE {ctrl[id].min, ctrl[id].max}

CatalogSizes ==
  { <<supported_modes_12bit[m].width, supported_modes_12bit[m].height>> : m \in 1..NumModes }

InitCtl == InitState(MaxFaults) /\ calc = NoCalc

NextCtl ==
  \/ \E e \in BOOLEAN : imx294_set_stream(e)
  \/ SsGet
  \/ StCommon
  \/ StMode
  \/ StReplay
  \/ StRet
  \/ SsStop
  \/ imx294_power_off
  \/ \E t \in Threads : ScEntry(t)
  \/ \E t \in Threads : ScExp(t)
  \/ \E t \in Threads : ScPm(t)
  \/ \E t \in Threads : ScWrite(t)
  \/ \E id \in {"vblank", "hblank", "exposure", "gain"} : \E val \in CtrlValues(id) : v4l2_s_ctrl(id, val)
  \/ UcRet
  \/ \E r \in CatalogSizes : \E c \in RequestCodes : imx294_set_pad_format(c, r[1], r[2])
  \/ FlHb
  \/ FlVbr
  \/ FlVb
  \/ FlPr
  \/ \E t \in Threads : Return(t)

SpecCtl == InitCtl /\ [][NextCtl]_vars

\* ---------------------------------------------------------------- device registers
\* The whole driver as in Spec, with the timing registers of the device followed.
InitHw == InitWith(0, TrackedRegs \cup TimingRegs) /\ calc = NoCalc

SpecHw == InitHw /\ [][Next]_vars

\* ---------------------------------------------------------------- exposure calculations
\* The three exposure functions applied to arguments of their own: the period
\* fields of the catalog and beyond them, up to a vertical period above 2^32
\* and a shutter value equal to the whole frame.
CalcHmax == {100, 1200, 1875}
CalcVmax == {W(1111), W(2500), W(70000), W(IMX294_VMAX_MAX), W64(1, 7)}
CalcSvr == {0, 1}
CalcOffset == {0, 256, 551}
\* shutter values for a frame of total lines: min_SHR, a value inside, the
\* greatest the limits use, and the whole frame
CalcShr(total) == {W(5), W(1000), WMin(WSub(total, W(4)), W(65535)), total}

CalcInputs ==
  { [NoCalc EXCEPT !.stage = "args", !.hmax = h, !.vmax = v, !.svr = r, !.offset = o, !.shr = x] :
      <<h, v, r, o, x>> \in
        UNION { {<<h, v, r, o, x>> : x \in CalcShr(WMul(v, W(r + 1)))} :
                  <<h, v, r, o>> \in CalcHmax \X CalcVmax \X CalcSvr \X CalcOffset } }

driver_vars == <<streaming, common_regs_written, mode, HMAX, VMAX, ctrl, usage_count, powered,
                 suspended, mutex, pc, op, log, regs, hw, faults, calls>>

InitCalc == InitState(0) /\ calc \in CalcInputs

\* exposure = calculate_v4l2_cid_exposure(hmax, vmax, shr, svr, offset)
CalcExposure ==
  /\ calc.stage = "args"
  /\ calc' = [calc EXCEPT !.stage = "exposure",
                !.exposure = calculate_v4l2_cid_exposure_u64(calc.hmax, calc.vmax, calc.shr,
                                                             calc.svr, calc.offset)]
  /\ UNCHANGED driver_vars

\* back = calculate_shr(exposure, hmax, vmax, svr, offset)
CalcBack ==
  /\ calc.stage = "exposure"
  /\ calc' = [calc EXCEPT !.stage = "shr",
                !.back = calculate_shr_u64(calc.exposure, calc.hmax, calc.vmax, calc.svr,
                                           calc.offset)]
  /\ UNCHANGED driver_vars

\* calculate_min_max_v4l2_cid_exposure(hmax, vmax, shr, svr, offset, &min, &max)
CalcLimits ==
  /\ calc.stage = "shr"
  /\ calc' = [calc EXCEPT !.stage = "limits",
                !.limits = calculate_min_max_v4l2_cid_exposure_u64(calc.hmax, calc.vmax, calc.shr,
                                                                  calc.svr, calc.offset)]
  /\ UNCHANGED driver_vars

NextCalc == CalcExposure \/ CalcBack \/ CalcLimits

SpecCalc == InitCalc /\ [][NextCalc]_vars

\* ---------------------------------------------------------------- properties
\* the register-transport calls of a log, and those issued from one place
Writes(l) == SelectSeq(l, LAMBDA e : e[1] = "w")
TaggedWrites(l, tag) == SelectSeq(l, LAMBDA e : e[1] = "w" /\ e[6] = tag)
\* the runtime-PM releases of a log
Releases(l) == SelectSeq(l, LAMBDA e : e[1] \in {"pm_runtime_put", "pm_runtime_put_noidle"})
\* <<address, value>> of every entry, <<address>> of every entry
AddrVal(l) == [k \in 1..Len(l) |-> <<l[k][2], l[k][4]>>]
Addr(l) == [k \in 1..Len(l) |-> l[k][2]]
\* the write records of a register list (the delay directives left out)
WriteRecords(list) == SelectSeq(list, LAMBDA r : r[1] # REG_DELAY)
\* the standby write, whatever its result
IsStandbyWrite(e) ==
  e[1] = "w" /\ e[2] = IMX294_REG_MODE_SELECT /\ e[3] = 1 /\ e[4] = IMX294_MODE_STANDBY

\* the driver thread runs (or has just finished) the named call
DrvIn(name) == op["drv"].name = name
DrvDone(name) == pc["drv"] = "done" /\ op["drv"].name = name
\* the step that makes the named call
DrvCalls(name) == pc["drv"] = "idle" /\ pc'["drv"] # "idle" /\ op'["drv"].name = name
\* the driver's own state: everything but the positions, logs and device side
DriverState == <<streaming, common_regs_written, mode, HMAX, VMAX, ctrl, usage_count,
                 powered, mutex>>

\* ---- C1
\* C1: in an enable the first call of all is the power acquisition, so every
\* register write comes after it; when the acquisition fails the enable ends
\* at once with no register write, not streaming, and a negative return value.
C1_PowerBeforeWrites ==
  (DrvIn("set_stream") /\ op["drv"].a = "on" /\ log["drv"] # <<>>) =>
     /\ log["drv"][1][1] = "pm_runtime_get_sync"
     /\ ~log["drv"][1][5] =>
          /\ pc["drv"] = "done"
          /\ Writes(log["drv"]) = <<>>
          /\ ~streaming
          /\ op["drv"].ret < 0

\* an enable has returned after its power acquisition failed
C1_PowerFailed ==
  /\ DrvDone("set_stream") /\ op["drv"].a = "on"
  /\ log["drv"] # <<>> /\ ~log["drv"][1][5]

\* ---- C2
\* C2: an enable during which some register write failed has, when it
\* returns, released power exactly once, left streaming false and returned a
\* negative value.
C2_WriteFailureAbortsEnable ==
  (DrvDone("set_stream") /\ op["drv"].a = "on"
     /\ \E k \in 1..Len(log["drv"]) : log["drv"][k][1] = "w" /\ ~log["drv"][k][5]) =>
     /\ Len(Releases(log["drv"])) = 1
     /\ ~streaming
     /\ op["drv"].ret < 0

\* an enable returned 0 and set streaming although one of its writes failed
C2_EnabledDespiteFailedWrite ==
  /\ DrvDone("set_stream") /\ op["drv"].a = "on"
  /\ op["drv"].ret = 0 /\ streaming /\ usage_count > 0
  /\ \E k \in 1..Len(log["drv"]) : log["drv"][k][1] = "w" /\ ~log["drv"][k][5]

\* ---- C3
\* a register list has just ended on a failed write (the replay has not begun)
ListFailed == pc["drv"] = "st_ret" /\ op["drv"].ret # 0 /\ op["drv"].ri = 0
\* the list that write belongs to, and the number of the failing record
FailedTag == log["drv"][Len(log["drv"])][6]
FailedList ==
  IF FailedTag = "common" THEN mode_common_regs ELSE supported_modes_12bit[mode].reg_list
FailedRecord == op["drv"].i

\* C3 as stated: when the write of record k of a list fails, the transport has
\* seen exactly k-1 earlier write calls of that list.
C3_PriorWritesAreKMinus1 ==
  ListFailed => Len(TaggedWrites(log["drv"], FailedTag)) - 1 = FailedRecord - 1

\* C3, amended: when the write of record k of a list fails, the write calls of
\* that list seen by the transport are exactly the write records among records
\* 1..k, in order (so the earlier calls number k-1 less the delay directives
\* before k), all before the last succeeded, nothing after record k is written
\* (a list is under way only while no write has failed);
\* and a call whose register list failed returns -EIO and leaves streaming false.
C3_FailFast ==
  /\ pc["drv"] \in {"st_common", "st_mode"} => op["drv"].ret = 0
  /\ ListFailed =>
       LET w == TaggedWrites(log["drv"], FailedTag)
           k == FailedRecord
       IN  /\ AddrVal(w) = WriteRecords(SubSeq(FailedList, 1, k))
           /\ Len(w) - 1 = Len(WriteRecords(SubSeq(FailedList, 1, k - 1)))
           /\ \A j \in 1..Len(w) : w[j][5] <=> j < Len(w)
           /\ log["drv"][Len(log["drv"])] = w[Len(w)]
  /\ ((DrvDone("set_stream") \/ DrvDone("resume"))
        /\ \E j \in 1..Len(log["drv"]) :
             log["drv"][j][1] = "w" /\ ~log["drv"][j][5] /\ log["drv"][j][6] \in {"common", "mode"}) =>
       /\ op["drv"].ret = -EIO
       /\ ~streaming

\* the common block failed at a record that follows a delay directive
C3_FailedAfterDelay ==
  /\ ListFailed /\ FailedTag = "common"
  /\ \E j \in 1..(FailedRecord - 1) : mode_common_regs[j][1] = REG_DELAY

\* ---- C4
\* C4: the call step of an enable made while streaming, or of a disable made
\* while not streaming, ends the call at once with return value 0 and an empty
\* call log, and changes nothing of the driver or the device; the return to
\* the caller changes nothing either.
C4_RepeatedRequestIsNoOp ==
  [][ /\ (DrvCalls("set_stream") /\ streaming = (op'["drv"].a = "on")) =>
           /\ pc'["drv"] = "done"
           /\ op'["drv"].ret = 0
           /\ log'["drv"] = <<>>
           /\ UNCHANGED <<DriverState, suspended, regs, hw, faults>>
      /\ (DrvDone("set_stream") /\ pc'["drv"] = "idle") =>
           UNCHANGED <<DriverState, suspended, regs, hw, faults>> ]_vars

\* an enable made while streaming has returned
C4_EnableWhileStreaming ==
  /\ DrvDone("set_stream") /\ op["drv"].a = "on"
  /\ log["drv"] = <<>> /\ streaming /\ op["drv"].ret = 0

\* ---- C5
\* C5: common_regs_written is true exactly when the device has received one
\* complete common block since its power-up, never more than one; it is false
\* on an unpowered device; the common block is being written only while the
\* flag is false, and then the device has received the records before the
\* current one in order from the first; the mode list is being written only
\* while the flag is true, and a device that received a mode-list write has
\* received the complete common block.
C5_CommonBlockOncePerPowerUp ==
  /\ common_regs_written <=> hw.blocks = 1
  /\ hw.blocks <= 1
  /\ ~powered => ~common_regs_written
  /\ pc["drv"] = "st_common" => (~common_regs_written /\ hw.seen = op["drv"].i - 1)
  /\ pc["drv"] = "st_mode" => common_regs_written
  /\ hw.modeWritten => hw.blocks = 1

\* after a failure earlier in the run, an enable that wrote the whole common
\* block is writing the mode list
C5_ModeListAfterRewrittenBlock ==
  /\ pc["drv"] = "st_mode" /\ DrvIn("set_stream")
  /\ faults > 0
  /\ Len(TaggedWrites(log["drv"], "common")) = Len(WriteRecords(mode_common_regs))
  /\ hw.modeWritten

\* ---- C6
\* the place of a write in the programming order
Rank(tag) ==
  CASE tag = "common" -> 1
    [] tag = "mode" -> 2
    [] tag = "vblank" -> 3
    [] tag = "hblank" -> 4
    [] tag = "exposure" -> 5
    [] tag = "gain" -> 6
    [] OTHER -> 7

\* the registers each control setter writes, in order
VblankAddrs ==
  <<IMX294_REG_VMAX, IMX294_REG_PSSLVS1, IMX294_REG_PSSLVS2, IMX294_REG_PSSLVS3,
    IMX294_REG_PSSLVS4, IMX294_REG_PSSLVS0>>
HblankAddrs == <<IMX294_REG_HMAX, IMX294_REG_HCOUNT1, IMX294_REG_HCOUNT2>>

\* The writes of log l are a complete programming in order: the common block
\* whole or not at all, the list of mode m, then the vertical blank (its six
\* registers, after the exposure register when the setter had to move the
\* exposure into its new range), the horizontal blank, the exposure and the gain.
ProgramInOrder(l, m) ==
  LET w == Writes(l)
  IN  /\ \A k \in 1..(Len(w) - 1) : Rank(w[k][6]) <= Rank(w[k + 1][6])
      /\ AddrVal(TaggedWrites(l, "common")) \in {<<>>, WriteRecords(mode_common_regs)}
      /\ AddrVal(TaggedWrites(l, "mode")) = supported_modes_12bit[m].reg_list
      /\ Addr(TaggedWrites(l, "vblank")) \in {VblankAddrs, <<IMX294_REG_SHR>> \o VblankAddrs}
      /\ Addr(TaggedWrites(l, "hblank")) = HblankAddrs
      /\ Addr(TaggedWrites(l, "exposure")) = <<IMX294_REG_SHR>>
      /\ Addr(TaggedWrites(l, "gain")) = <<IMX294_REG_ANALOG_GAIN>>
      /\ w[Len(w)][5]

\* C6: an enable that returned 0 after programming the device issued, after
\* the power acquisition, the common block (whole or not at all), the mode
\* list in list order, and the control writes in the order vertical blank,
\* horizontal blank, exposure, gain, the last write succeeding; streaming is
\* false for as long as the enable has not finished.
C6_EnableOrder ==
  /\ (DrvDone("set_stream") /\ op["drv"].a = "on" /\ op["drv"].ret = 0 /\ log["drv"] # <<>>) =>
       /\ log["drv"][1] = <<"pm_runtime_get_sync", 0, 0, 0, TRUE, "pm">>
       /\ ProgramInOrder(log["drv"], mode)
       /\ streaming
  /\ (DrvIn("set_stream") /\ op["drv"].a = "on" /\ pc["drv"] # "done") => ~streaming

\* an enable that wrote the common block has returned 0
C6_EnabledWithCommonBlock ==
  /\ DrvDone("set_stream") /\ op["drv"].a = "on" /\ op["drv"].ret = 0 /\ streaming
  /\ TaggedWrites(log["drv"], "common") # <<>>
  /\ TaggedWrites(log["drv"], "gain") # <<>>

\* ---- C7
\* C7: a disable made while streaming goes to the stop step, and the stop step
\* ends the call with return value 0, streaming false, one power reference
\* less and the lock free, having issued exactly one standby write (with
\* either result) followed by one pm_runtime_put.
C7_DisableAlwaysReleases ==
  [][ /\ (DrvCalls("set_stream") /\ op'["drv"].a = "off" /\ streaming) =>
           (pc'["drv"] = "ss_stop" /\ log'["drv"] = <<>>)
      /\ pc["drv"] = "ss_stop" =>
           /\ pc'["drv"] = "done"
           /\ op'["drv"].ret = 0
           /\ ~streaming'
           /\ usage_count' = usage_count - 1
           /\ mutex' = "free"
           /\ Len(log'["drv"]) = 2
           /\ IsStandbyWrite(log'["drv"][1])
           /\ log'["drv"][2][1] = "pm_runtime_put" ]_vars

\* a disable whose standby write failed has returned
C7_StandbyWriteFailed ==
  /\ DrvDone("set_stream") /\ op["drv"].a = "off"
  /\ log["drv"] # <<>> /\ ~log["drv"][1][5]
  /\ ~streaming /\ op["drv"].ret = 0

\* ---- C8
\* C8: while a streaming transition is under way (the driver thread is inside
\* imx294_set_stream, imx294_suspend or imx294_resume, past the call step) the
\* lock is held by the driver thread.
C8_LockHeldInTransition ==
  pc["drv"] \notin {"idle", "done"} => mutex = "drv"

\* imx294_resume is writing a control register of the replay with the lock free
C8_ResumeReplayUnlocked ==
  /\ DrvIn("resume") /\ pc["drv"] = "sc_w"
  /\ mutex = "free"

\* ---- C9
\* C9: a resume that has returned with streaming true returned 0 after the
\* complete programming in order; a resume during which a write of that
\* programming failed returned an error and left streaming false; a resume
\* that returned 0 with streaming false (the suspend was taken in standby)
\* issued no call at all.
C9_ResumeFailureForcesStandby ==
  DrvDone("resume") =>
    /\ streaming => (op["drv"].ret = 0 /\ ProgramInOrder(log["drv"], mode))
    /\ (\E k \in 1..Len(log["drv"]) :
          log["drv"][k][1] = "w" /\ ~log["drv"][k][5] /\ log["drv"][k][6] # "stop") =>
         (~streaming /\ op["drv"].ret < 0)
    /\ (~streaming /\ op["drv"].ret = 0) => log["drv"] = <<>>

\* a resume returned 0 and left streaming true although one of its writes failed
C9_ResumedDespiteFailedWrite ==
  /\ DrvDone("resume") /\ op["drv"].ret = 0 /\ streaming
  /\ \E k \in 1..Len(log["drv"]) : log["drv"][k][1] = "w" /\ ~log["drv"][k][5]

\* ---- C10
\* C10: no step of a suspend changes the streaming flag, common_regs_written,
\* the mode, the period fields, any control, the power reference count, the
\* power state or the lock; a suspend called while not streaming ends at once
\* and changes nothing of the device; a finished suspend returned 0 and issued
\* exactly the standby write when streaming is true and no call otherwise.
C10_SuspendOnlyWritesStandby ==
  [][ (pc["drv"] # pc'["drv"] /\ op'["drv"].name = "suspend") =>
        /\ UNCHANGED DriverState
        /\ ~streaming => (pc'["drv"] = "done" /\ UNCHANGED <<regs, hw, faults>>)
        /\ pc'["drv"] = "done" =>
             /\ op'["drv"].ret = 0
             /\ IF streaming
                THEN Len(log'["drv"]) = 1 /\ IsStandbyWrite(log'["drv"][1])
                ELSE log'["drv"] = <<>> ]_vars

\* a suspend made while streaming has finished
C10_SuspendedWhileStreaming ==
  /\ DrvDone("suspend") /\ streaming /\ usage_count > 0
  /\ Len(log["drv"]) = 1

\* ---- C11
\* the user thread has finished the named call
UsrDone(name) == pc["usr"] = "done" /\ op["usr"].name = name
\* the mode in effect
Mode == supported_modes_12bit[mode]

\* C11: on a bus that never fails, in every state reached by format changes
\* and control writes with values inside the controls' ranges, HMAX is at
\* least the mode's min_HMAX (so never 0 as a divisor) and VMAX at least the
\* mode's min_VMAX.
C11_PeriodsAtLeastModeMinimum ==
  /\ HMAX >= Mode.min_HMAX
  /\ HMAX > 0
  /\ VMAX >= Mode.min_VMAX

\* the least horizontal and the least vertical blank have both been applied
\* to the streaming device
C11_BothPeriodsAtMinimum ==
  /\ UsrDone("s_ctrl") /\ usage_count > 0
  /\ ctrl["hblank"].val = 0 /\ HMAX = HmaxOf(mode, 0)
  /\ ctrl["vblank"].val = VblankMin(mode) /\ VMAX = Mode.min_VMAX

\* ---- C12, C13
\* thread t is in imx294_set_ctrl for V4L2_CID_VBLANK, past the re-ranging of
\* the exposure control and before the pm_runtime_get_if_in_use test
AfterReRange(t) == pc[t] = "sc_pm" /\ op[t].a = "vblank"

\* the exposure limits for the period fields h and v in the mode in effect
ExposureLimits(h, v) ==
  calculate_min_max_v4l2_cid_exposure(h, v, Mode.min_SHR, 0, Mode.integration_offset)

\* thread t is about to issue the write of the shutter register
ShutterWriteDue(t) ==
  pc[t] = "sc_w" /\ op[t].a = "exposure" /\ op[t].w[op[t].i][1] = IMX294_REG_SHR

\* the exposure of the write lies within the limits for the current periods
C12_ExposureWithinLimits ==
  \A t \in Threads :
    ShutterWriteDue(t) =>
      /\ op[t].v >= ExposureLimits(HMAX, VMAX)[1]
      /\ op[t].v <= ExposureLimits(HMAX, VMAX)[2]

\* C12 (as stated): whenever the write of the shutter register is issued (an
\* exposure set on the powered device, or replayed at the start of
\* streaming), the exposure used lies within the limits computed from the
\* current HMAX, VMAX and mode, and the value written is at least min_SHR.
C12_ShutterWriteWithinLimits ==
  /\ C12_ExposureWithinLimits
  /\ \A t \in Threads :
       ShutterWriteDue(t) => op[t].w[op[t].i][3] >= Mode.min_SHR

\* the least exposure of a long frame is being written: the shutter value
\* computed is 65536 and the two bytes written hold 0
C12_ShutterWrittenBelowMinimum ==
  \E t \in Threads :
    /\ ShutterWriteDue(t)
    /\ op[t].v = ExposureLimits(HMAX, VMAX)[1]
    /\ calculate_shr(op[t].v, HMAX, VMAX, 0, Mode.integration_offset) = U16
    /\ op[t].w[op[t].i][3] = 0

C13_ReRanged ==
  \A t \in Threads :
    AfterReRange(t) =>
      LET er == ExposureLimits(HMAX, VmaxOf(mode, op[t].v))
      IN  /\ ctrl["exposure"].min = er[1]
          /\ ctrl["exposure"].max = er[2]
          /\ ctrl["exposure"].val >= er[1]
          /\ ctrl["exposure"].val <= er[2]

C14_SettersStoreWhetherPowered ==
  (UsrDone("s_ctrl") /\ op["usr"].ret = 0) =>
    LET a == op["usr"].a
        v == op["usr"].v
    IN  /\ ctrl[a].val = v
        /\ a = "hblank" => HMAX = HmaxOf(mode, v)
        /\ a = "vblank" => VMAX = VmaxOf(mode, v)

\* the horizontal blank was set on the unpowered device, the call returned 0
\* and HMAX is not the value derived from it
C14_HblankNotStoredUnpowered ==
  /\ UsrDone("s_ctrl") /\ op["usr"].a = "hblank" /\ op["usr"].ret = 0
  /\ ~powered /\ usage_count = 0
  /\ ctrl["hblank"].val = op["usr"].v
  /\ HMAX # HmaxOf(mode, op["usr"].v)

\* ---- C15
\* C15: while a control is set on a device without a held power reference the
\* call has made no transport call, and it ends with 0; for every control and
\* every value set.
C15_UnpoweredSetIsSilent ==
  (op["usr"].name = "s_ctrl" /\ usage_count = 0 /\ pc["usr"] # "idle") =>
    /\ log["usr"] = <<>>
    /\ pc["usr"] = "done" => op["usr"].ret = 0

\* the largest vertical blank was set on the unpowered device: VMAX and the
\* exposure changed, nothing was written
C15_VblankSetUnpowered ==
  /\ UsrDone("s_ctrl") /\ op["usr"].a = "vblank" /\ op["usr"].v = VblankMax(mode)
  /\ ~powered /\ usage_count = 0
  /\ VMAX = IMX294_VMAX_MAX
  /\ log["usr"] = <<>> /\ op["usr"].ret = 0

\* ---- C16
\* C16: in every mode, once imx294_set_ctrl has taken a vertical blank x,
\* VMAX is floor((height + x) / VMAX_scale), the whole number and not its
\* low 16 bits.
C16_VmaxFromVblank ==
  \A t \in Threads :
    (AfterReRange(t) \/ (t = "usr" /\ UsrDone("s_ctrl") /\ op[t].a = "vblank")) =>
      /\ VMAX * Mode.VMAX_scale <= Mode.height + op[t].v
      /\ Mode.height + op[t].v < (VMAX + 1) * Mode.VMAX_scale

\* a vertical blank that gives a VMAX of more than 16 bits was set
C16_VmaxAbove16Bits ==
  /\ UsrDone("s_ctrl") /\ op["usr"].a = "vblank" /\ op["usr"].v = ctrl["vblank"].max
  /\ mode # 1
  /\ VMAX = IMX294_VMAX_MAX /\ VMAX >= U16

\* ---- C17
\* C17: the default vertical blank of every mode is default_VMAX * VMAX_scale
\* - height, the control is created with it, and when imx294_set_ctrl takes it
\* VMAX is the mode's default_VMAX; for height 2184, scale 2 and default 2500
\* the default blank is 2816 and VMAX 2500.
C17_DefaultVblankGivesDefaultVmax ==
  /\ \A m \in 1..NumModes :
       LET md == supported_modes_12bit[m]
       IN  /\ VblankDef(m) = md.default_VMAX * md.VMAX_scale - md.height
           /\ (md.height = 2184 /\ md.VMAX_scale = 2 /\ md.default_VMAX = 2500)
                => VblankDef(m) = 2816
  /\ \A t \in Threads :
       (AfterReRange(t) /\ op[t].v = Mode.default_VMAX * Mode.VMAX_scale - Mode.height)
         => VMAX = Mode.default_VMAX

\* a format change to the fourth mode has set the default vertical blank
C17_DefaultSetByFormatChange ==
  /\ UsrDone("set_fmt") /\ mode = 4
  /\ ctrl["vblank"].val = 2 * 1600 - 2840
  /\ VMAX = 1600

\* ---- C18
\* the lines of the frame of the calculation, vmax * (svr + 1)
CalcTotal == WMul(calc.vmax, W(calc.svr + 1))

\* the calculation has passed the named stage
CalcPast(stage) ==
  CASE stage = "exposure" -> calc.stage \in {"exposure", "shr", "limits"}
    [] stage = "shr" -> calc.stage \in {"shr", "limits"}
    [] OTHER -> calc.stage = "limits"

\* the arguments are in the range the short forms of the calculations (the
\* ones the driver's actions use) are good for
CalcNarrow == WFits(CalcTotal) /\ ~WLess(CalcTotal, calc.shr)

\* C18: calculate_min_max_v4l2_cid_exposure returns as least exposure the
\* exposure of the shutter value min(65535, vmax * (svr + 1) - 4) and as
\* greatest the exposure of min_shr; these are the whole numbers
\* (vmax * (svr + 1) - shr) + floor(offset / hmax) on the driver's range; and
\* for hmax 1200, vmax 2500, svr 0, offset 256 and min_shr 5 they are 4 and 2495.
C18_LimitsFromShutterRange ==
  CalcPast("limits") =>
    LET max_shr == IF WFits(CalcTotal) THEN W(Min(65535, WInt(CalcTotal) - 4)) ELSE W(65535)
        E(x) == calculate_v4l2_cid_exposure_u64(calc.hmax, calc.vmax, x, calc.svr, calc.offset)
    IN  /\ calc.limits = <<E(max_shr), E(calc.shr)>>
        /\ CalcNarrow =>
             /\ WFits(calc.limits[1]) /\ WFits(calc.limits[2])
             /\ <<WInt(calc.limits[1]), WInt(calc.limits[2])>> =
                  calculate_min_max_v4l2_cid_exposure(calc.hmax, WInt(calc.vmax), WInt(calc.shr),
                                                      calc.svr, calc.offset)
        /\ (calc.hmax = 1200 /\ calc.vmax = W(2500) /\ calc.svr = 0 /\ calc.offset = 256
              /\ calc.shr = W(5))
             => calc.limits = <<W(4), W(2495)>>

\* the limits of the example have been computed
C18_ExampleLimits ==
  /\ calc.stage = "limits"
  /\ calc.hmax = 1200 /\ calc.vmax = W(2500) /\ calc.svr = 0 /\ calc.offset = 256
  /\ calc.shr = W(5)
  /\ calc.limits = <<W(4), W(2495)>>

\* ---- C19
\* floor(((vmax * (svr + 1) - shr) * hmax + offset) / hmax); the arguments
\* drawn keep the numerator below 2^64
ExposureQuotient ==
  WDiv(WAdd(WMul(WSub(CalcTotal, calc.shr), W(calc.hmax)), W(calc.offset)), calc.hmax)

\* a clamped to 0..2^32-1
WSat32(a) ==
  LET x(i) == IF i <= 4 THEN 255 ELSE 0
  IN  IF \E i \in 5..8 : a[i] # 0 THEN Word(x) ELSE a

WNear(a, b, n) == ~WLess(WAdd(a, W(n)), b) /\ ~WLess(WAdd(b, W(n)), a)

ShortFormsAgree ==
  (CalcPast("shr") /\ CalcNarrow /\ WFits(calc.exposure)) =>
    /\ WInt(calc.exposure) =
         calculate_v4l2_cid_exposure(calc.hmax, WInt(calc.vmax), WInt(calc.shr), calc.svr, calc.offset)
    /\ WInt(calc.exposure) > (calc.offset - 1) \div calc.hmax =>
         /\ WFits(calc.back)
         /\ WInt(calc.back) =
              calculate_shr(WInt(calc.exposure), calc.hmax, WInt(calc.vmax), calc.svr, calc.offset)

\* ---- C21
\* the exposure limits at the default periods of catalog mode m
DefaultLimits(m) ==
  LET md == supported_modes_12bit[m]
  IN  calculate_min_max_v4l2_cid_exposure(md.default_HMAX, md.default_VMAX, md.min_SHR, 0,
                                          md.integration_offset)

\* C21: for every catalog mode the default exposure, 1000 lines, lies within
\* the exposure limits computed at the mode's default_HMAX and default_VMAX
\* with its min_SHR and integration_offset; and these are the limits the
\* exposure control has when imx294_set_framing_limits has set the default
\* vertical blank of the mode.
C21_DefaultExposureWithinDefaultLimits ==
  /\ \A m \in 1..NumModes :
       /\ IMX294_EXPOSURE_DEFAULT = 1000
       /\ DefaultLimits(m)[1] <= IMX294_EXPOSURE_DEFAULT
       /\ IMX294_EXPOSURE_DEFAULT <= DefaultLimits(m)[2]
  /\ pc["usr"] = "fl_vb" =>
       /\ ctrl["exposure"].min = DefaultLimits(mode)[1]
       /\ ctrl["exposure"].max = DefaultLimits(mode)[2]

\* a format change to the fourth mode has left the default exposure in place
\* between the limits 4 and 1595
C21_DefaultExposureKept ==
  /\ UsrDone("set_fmt") /\ mode = 4
  /\ ctrl["exposure"].val = IMX294_EXPOSURE_DEFAULT
  /\ ctrl["exposure"].min = 4 /\ ctrl["exposure"].max = 1595
  /\ DefaultLimits(4) = <<4, 1595>>

\* ---- C22
\* the pixel rate the V4L2_CID_HBLANK case derives HMAX with
HblankPixelRate(m) ==
  MulDiv(supported_modes_12bit[m].width, BASE_CLOCK, supported_modes_12bit[m].min_HMAX)

\* C22 (as stated): after probe and after every change of the mode, the
\* pixel-rate control is floor(width * 72000000 / min_HMAX) of the mode in
\* effect, the rate the horizontal-blank setter derives HMAX with.
C22_PixelRateOfMode ==
  (Quiet \/ UsrDone("set_fmt")) => ctrl["pixel_rate"].val = HblankPixelRate(mode)

\* a format change to the fourth mode on the unpowered device has set the
\* pixel-rate control to floor(width * 144000000 / min_HMAX), twice the rate
\* of the horizontal-blank setter
C22_PixelRateDoubled ==
  /\ UsrDone("set_fmt") /\ mode = 4 /\ ~powered
  /\ ctrl["pixel_rate"].val = FramingPixelRate(4)
  /\ FramingPixelRate(4) = 533250000
  /\ HblankPixelRate(4) = 266625000

\* a format change on the streaming device has left the pixel-rate control
\* at the rate of the mode before
C22_PixelRateStale ==
  /\ UsrDone("set_fmt") /\ streaming
  /\ ctrl["pixel_rate"].val # FramingPixelRate(mode)

\* ---- C26
\* imx294_set_ctrl has returned to imx294_set_framing_limits from the call for
\* the pixel-rate control, an id its switch has no case for
UnhandledReturned == pc["usr"] = "fl_pr"

\* C26 (as stated): a call of imx294_set_ctrl for a control id it does not
\* handle returns an error, powered or not (and has changed no period field
\* and written no register).
C26_UnhandledIdRejected ==
  UnhandledReturned =>
    /\ op["usr"].ret # 0
    /\ Writes(log["usr"]) = TaggedWrites(log["usr"], "hblank") \o TaggedWrites(log["usr"], "vblank")

\* the call for the pixel-rate control on the unpowered device returned 0
C26_UnhandledIdAccepted ==
  /\ UnhandledReturned
  /\ usage_count = 0
  /\ op["usr"].ret = 0

\* ---- C23
\* <<address, length, value>> of the writes of log l that the
\* V4L2_CID_VBLANK case itself issued (the shutter write of a nested exposure
\* call left out)
VblankCaseWrites(l) ==
  LET ws == SelectSeq(l, LAMBDA e : e[1] = "w" /\ e[6] = "vblank" /\ e[2] # IMX294_REG_SHR)
  IN  [k \in 1..Len(ws) |-> <<ws[k][2], ws[k][3], ws[k][4]>>]

\* a call that set the vertical blank on the powered device is complete: a
\* control write of the user, or the replay of an enable that went through
VblankSetPowered(t) ==
  IF t = "usr"
  THEN UsrDone("s_ctrl") /\ op[t].a = "vblank" /\ log[t] # <<>>
  ELSE DrvDone("set_stream") /\ op[t].ret = 0 /\ streaming /\ log[t] # <<>>

\* the difference the blanking registers are derived from
VblankDiff == VMAX - Mode.min_VMAX

SetterWrites(l, id) ==
  SelectSeq(l, LAMBDA e : e[1] = "w" /\ e[6] = id /\ e[2] # IMX294_REG_SHR)

\* the user's call of a multi-register setter is complete
SetterDone(id) == UsrDone("s_ctrl") /\ op["usr"].a = id

\* C25: in the vertical-blank and horizontal-blank setters a failed register
\* write is the last write of the setter and the setter returns an error: no
\* write follows a failed one and no call with a failed write returns success.
C25_FailedWriteEndsSetter ==
  \A id \in {"vblank", "hblank"} :
    SetterDone(id) =>
      LET ws == SetterWrites(log["usr"], id)
      IN  \A k \in 1..Len(ws) : ~ws[k][5] => (k = Len(ws) /\ op["usr"].ret # 0)

\* a multi-register setter returned success although one of its writes failed
\* and the writes after it were still made
C25_FailedWriteOverwritten ==
  \E id \in {"vblank", "hblank"} :
    /\ SetterDone(id) /\ op["usr"].ret = 0
    /\ LET ws == SetterWrites(log["usr"], id)
       IN  \E k \in 1..(Len(ws) - 1) : ~ws[k][5]

\* ---- C24
\* the 2-byte register at address addr as the device holds it
RegWord(addr) == regs[addr] + 256 * regs[addr + 1]

\* the user's horizontal-blank setter has written the horizontal-period
\* register on the powered device and reported success
HblankSetReported ==
  /\ SetterDone("hblank") /\ op["usr"].ret = 0
  /\ \E k \in 1..Len(log["usr"]) :
       log["usr"][k][2] = IMX294_REG_HMAX /\ log["usr"][k][5]

\* C24: when the horizontal-blank setter has written the horizontal-period
\* register 0x30AC and reports success, the mirrored counter registers 0x3084
\* and 0x3086 hold the value of 0x30AC, the HMAX of the driver.
C24_MirrorsEqualHmax ==
  HblankSetReported =>
    /\ RegWord(IMX294_REG_HMAX) = HMAX
    /\ RegWord(IMX294_REG_HCOUNT1) = RegWord(IMX294_REG_HMAX)
    /\ RegWord(IMX294_REG_HCOUNT2) = RegWord(IMX294_REG_HMAX)

\* the setter reported success and a mirror differs from the horizontal-period
\* register
C24_MirrorLeftBehind ==
  /\ HblankSetReported
  /\ RegWord(IMX294_REG_HMAX) = HMAX
  /\ RegWord(IMX294_REG_HCOUNT1) # RegWord(IMX294_REG_HMAX)

\* ---- C28
\* C28: whenever no operation is in progress the driver holds exactly one
\* runtime-PM reference if it is streaming and none if it is not, failed
\* enables and failed resumes included.
C28_OneReferenceIffStreaming ==
  Quiet => usage_count = (IF streaming THEN 1 ELSE 0)

\* a resume has failed: streaming is off and the reference of the enable is
\* still held
C28_ReferenceKeptByFailedResume ==
  DrvDone("resume") /\ op["drv"].ret # 0 /\ ~streaming /\ usage_count = 1

\* ---- C30
\* C30: whenever the driver is streaming (and not suspended) and no operation
\* is in progress, the mode-select register 0x3000 holds the streaming value
\* 0x00 as the last value written to it.
C30_StreamingValueSelected ==
  (Quiet /\ streaming /\ ~suspended) =>
    regs[IMX294_REG_MODE_SELECT] = IMX294_MODE_STREAMING

\* a resume has succeeded with the power never removed and no write ever
\* failed: the driver is streaming and the register still holds the standby
\* value of the suspend
C30_StandbyLeftByResume ==
  /\ DrvDone("resume") /\ op["drv"].ret = 0 /\ streaming /\ ~suspended
  /\ powered /\ common_regs_written /\ faults = 0
  /\ regs[IMX294_REG_MODE_SELECT] = IMX294_MODE_STANDBY

\* ---- C29
\* the mode whose register list was last programmed onto the device is mode m:
\* the head register of the mode lists holds the value of m's list (the value
\* differs between the four lists)
ListProgrammed(m) ==
  LET r == supported_modes_12bit[m].reg_list[1]
  IN  r[1] = REG_MODE_LIST_HEAD /\ regs[REG_MODE_LIST_HEAD] = r[2]

\* C29: whenever the driver is streaming (and not suspended) and no operation
\* is in progress, the mode register list last programmed onto the device is
\* the list of the current mode.
C29_CurrentModeProgrammed ==
  (Quiet /\ streaming /\ ~suspended) => ListProgrammed(mode)

\* a format change while streaming has selected another mode, on a bus that
\* never failed, and the device still holds the list of the mode before
C29_ModeChangedUnprogrammed ==
  /\ UsrDone("set_fmt") /\ streaming /\ faults = 0
  /\ ~ListProgrammed(mode)
  /\ \E m \in 1..NumModes : m # mode /\ ListProgrammed(m)

\* ---- C27
\* the distance of catalog entry k from the size w x h
SizeError(k, w, h) ==
  Abs(supported_modes_12bit[k].width - w) + Abs(supported_modes_12bit[k].height - h)

\* the catalog entries of the least distance from w x h
NearestEntries(w, h) ==
  {k \in 1..NumModes : \A j \in 1..NumModes : SizeError(k, w, h) <= SizeError(j, w, h)}

\* the entry a request of w x h selects: the entry of exactly this size if
\* there is one, otherwise the last of the nearest entries in table order
SelectedEntry(w, h) ==
  LET best == NearestEntries(w, h)
  IN  CHOOSE k \in best : \A j \in best : j <= k

\* C27 (as stated): a format change selects the catalog entry that is a
\* function of the requested size alone, whatever the mode before and whether
\* or not the driver is streaming: the entry with the requested dimensions if
\* the catalog has one, and otherwise always the same nearest entry; the entry
\* selected is the mode of the driver from then on.
C27_ModeSelectedBySizeAlone ==
  op["usr"].name = "set_fmt" =>
    LET w == op["usr"].fw
        h == op["usr"].fh
    IN  /\ op["usr"].sel = SelectedEntry(w, h)
        /\ mode = SelectedEntry(w, h)
        /\ mode \in NearestEntries(w, h)
        /\ \A k \in 1..NumModes :
             (supported_modes_12bit[k].width = w /\ supported_modes_12bit[k].height = h)
               => mode = k

\* a format change made while streaming in another mode has selected the
\* catalog entry whose size was asked for
C27_ExactEntrySelectedStreaming ==
  /\ UsrDone("set_fmt") /\ streaming
  /\ op["usr"].fw = supported_modes_12bit[4].width
  /\ op["usr"].fh = supported_modes_12bit[4].height
  /\ mode = 4

\* with the mode list of a 12-bit code the selection is as C27 states
C27_CatalogSelectsBySize ==
  (op["usr"].name = "set_fmt" /\ op["usr"].nm = NumModes) =>
    /\ op["usr"].sel = SelectedEntry(op["usr"].fw, op["usr"].fh)
    /\ mode = op["usr"].sel

\* a format change has asked for the size of the fourth catalog entry with a
\* code the driver does not support: no entry was selected, the mode is not
\* the fourth and the call has died
C27_ExactSizeSelectsNothing ==
  /\ pc["usr"] = "oops" /\ op["usr"].name = "set_fmt"
  /\ op["usr"].fw = supported_modes_12bit[4].width
  /\ op["usr"].fh = supported_modes_12bit[4].height
  /\ op["usr"].sel = 0
  /\ mode # 4

\* a size the catalog does not have has selected its nearest entry
C27_NearestEntrySelected ==
  /\ UsrDone("set_fmt") /\ op["usr"].fw = 1920 /\ op["usr"].fh = 1080 /\ mode = 3

\* ---- C33
\* the default horizontal blank imx294_set_framing_limits installs for mode m
DefaultHblank(m) == Clamp(DefHblank(m), 0, IMX294_HMAX_MAX)

\* an enable has gone through and its replay has applied the default
\* horizontal blank of the current mode on the powered device
DefaultHblankReplayed ==
  /\ DrvDone("set_stream") /\ op["drv"].ret = 0 /\ streaming
  /\ ctrl["hblank"].val = DefaultHblank(mode)
  /\ \E k \in 1..Len(log["drv"]) :
       log["drv"][k][2] = IMX294_REG_HMAX /\ log["drv"][k][6] = "hblank"

\* C33 (as stated): the default horizontal blank of the mode, applied by the
\* horizontal-blank setter on the powered device as the replay of an enable
\* does, gives HMAX = default_HMAX of the mode, the value the mode change
\* stored, and this is the value written to the HMAX register.
C33_DefaultHblankGivesDefaultHmax ==
  DefaultHblankReplayed =>
    /\ HMAX = Mode.default_HMAX
    /\ \A k \in 1..Len(log["drv"]) :
         (log["drv"][k][2] = IMX294_REG_HMAX /\ log["drv"][k][6] = "hblank")
           => log["drv"][k][4] = Mode.default_HMAX

\* the replay of the default horizontal blank 4720 of the first mode has set
\* HMAX to 2399, the default_HMAX of the mode being 1200
C33_DefaultHmaxDoubled ==
  /\ DefaultHblankReplayed /\ mode = 1
  /\ DefaultHblank(1) = 4720
  /\ Mode.default_HMAX = 1200
  /\ HMAX = 2399

\* ---- C34
\* C34 (as stated): in every format change, whatever code the request
\* carries, the code lookup has not read past the end of the code table, the
\* mode list handed to the nearest-size selection is not empty and the mode
\* selected is an entry of the catalog.
C34_LookupInsideTableModeSelected ==
  op["usr"].name = "set_fmt" =>
    /\ ~op["usr"].past
    /\ op["usr"].nm > 0
    /\ op["usr"].sel \in 1..NumModes

\* a format change with a code the table does not hold has read past the
\* table, taken the empty list and selected no mode: the call has died on the
\* missing mode with the mutex held
C34_NoModeSelected ==
  /\ pc["usr"] = "oops" /\ op["usr"].name = "set_fmt"
  /\ op["usr"].past /\ op["usr"].nm = 0 /\ op["usr"].sel = 0
  /\ mutex = "usr"

\* a format change with a code the table does not hold has read past the
\* table and gone on with the catalog, the word read being a 12-bit code
C34_ReadPastTable ==
  UsrDone("set_fmt") /\ op["usr"].past /\ op["usr"].nm = NumModes

\* ---- C31
\* the shutter value of the current exposure and the current periods, as the
\* two bytes of the shutter register hold it
CurrentShutter ==
  calculate_shr(ctrl["exposure"].val, HMAX, VMAX, 0, Mode.integration_offset) % U16

\* C31 (as stated): while the driver is streaming (and not suspended) with no
\* operation in progress, the shutter register holds the shutter value
\* computed from the current exposure, the current HMAX and VMAX and the
\* integration offset of the current mode.
C31_ShutterFollowsPeriods ==
  (Quiet /\ streaming /\ ~suspended) => RegWord(IMX294_REG_SHR) = CurrentShutter

\* the vertical blank was set while streaming, on a bus that never failed: the
\* call has returned 0 with VMAX changed and the shutter register still holds
\* the value computed from the VMAX before
C31_ShutterOfOlderVmax ==
  /\ SetterDone("vblank") /\ op["usr"].ret = 0 /\ streaming /\ faults = 0
  /\ VMAX = VmaxOf(mode, op["usr"].v)
  /\ SetterWrites(log["usr"], "vblank") # <<>>
  /\ \A k \in 1..Len(log["usr"]) : log["usr"][k][2] # IMX294_REG_SHR
  /\ RegWord(IMX294_REG_SHR) # CurrentShutter

\* ---- C32
\* the shutter value imx294_set_ctrl computes for the write thread t is about
\* to issue, before it is cut to the two bytes of the register
ShutterDue(t) == calculate_shr(op[t].v, HMAX, VMAX, 0, Mode.integration_offset)

\* thread t is about to write the shutter register for an exposure inside the
\* exposure limits of the current periods
ShutterDueWithinLimits(t) ==
  /\ ShutterWriteDue(t)
  /\ op[t].v >= ExposureLimits(HMAX, VMAX)[1]
  /\ op[t].v <= ExposureLimits(HMAX, VMAX)[2]

\* C32 (as stated): for every exposure inside the exposure limits of the
\* current mode and periods, the shutter value computed for it lies between
\* min_SHR and min(65535, VMAX - 4), so that it fits the two bytes of the
\* register, and exposure * HMAX is not below the integration offset.
C32_ShutterWithinShutterRange ==
  \A t \in Threads :
    ShutterDueWithinLimits(t) =>
      /\ ShutterDue(t) >= Mode.min_SHR
      /\ ShutterDue(t) <= Min(65535, VMAX - 4)
      /\ op[t].w[op[t].i][3] = ShutterDue(t)
      /\ op[t].v > (Mode.integration_offset - 1) \div HMAX

\* the parts of C32 that do hold: the shutter value is at least min_SHR, at
\* most one above the greatest of the limits, and the subtraction
\* exposure * HMAX - offset does not wrap
C32_ShutterAtLeastMinimum ==
  \A t \in Threads :
    ShutterDueWithinLimits(t) =>
      /\ ShutterDue(t) >= Mode.min_SHR
      /\ ShutterDue(t) <= Min(65535, VMAX - 4) + 1
      /\ op[t].v > (Mode.integration_offset - 1) \div HMAX

\* the least exposure of a frame of fewer than 65539 lines is being written:
\* the shutter value computed is VMAX - 3, one above the greatest the limits
\* were computed from
C32_ShutterAboveGreatest ==
  \E t \in Threads :
    /\ ShutterDueWithinLimits(t)
    /\ op[t].v = ExposureLimits(HMAX, VMAX)[1]
    /\ VMAX - 4 < 65535
    /\ ShutterDue(t) = VMAX - 3
====
